---- MODULE Spec2Model ----
(***************************************************************************)
(* Job Marketplace v2.0 contract (linera-contracts/job-marketplace).       *)
(* The persisted application state of lib.rs (JobMarketplace) and the      *)
(* operations of contract.rs, each as a pure operator from the state       *)
(* before the call to the state after it and the Response it returns.      *)
(* A Response of Err does not roll anything back: store() saves whatever   *)
(* the handler wrote before it returned.                                   *)
(* Fields that no operation ever reads back (titles, descriptions, tags,   *)
(* proposals, creation and lock timestamps) are left out of the records.   *)
(***************************************************************************)
EXTENDS Integers, Sequences, FiniteSets, TLC

VARIABLES jobs, agents, ratings, escrow, disputes, messages,
          next_job_id, next_rating_id, next_dispute_id, next_message_id,
          now, last

vars == <<jobs, agents, ratings, escrow, disputes, messages,
          next_job_id, next_rating_id, next_dispute_id, next_message_id,
          now, last>>

(* ---------------------------- bounds ----------------------------------- *)
MaxJobs == 1
MaxDisputes == 2
MaxTime == 1
MaxCareerJobs == 2
MaxRatings == 2
MaxMessages == 2

(* ------------------------- program constants --------------------------- *)
U8Modulus == 256
MicrosPerSecond == 1000000
InitialSuccessRate == 100
FirstId == 1

(* ----------------------------- inputs ---------------------------------- *)
Users == {"alice", "bob", "carol"}
None == {}
Some(x) == {x}
Unwrap(o) == CHOOSE x \in o : TRUE
Signers == {None} \cup {Some(u) : u \in Users}
MilestoneInputs == {<<>>, <<60, 40>>, <<60, 50>>, <<178, 178>>}
DeadlineInputs == {None, Some(0)}
Payments == {100}
BidAmounts == {0, 90}
AcceptAmounts == {90, 100}
MilestoneIds == {0, 1, 2}
Resolutions == {"Open", "UnderReview", "ResolvedForClient",
                "ResolvedForAgent", "ResolvedSplit"}
RefundInputs == {None, Some(50)}
NoteInputs == {"n"}
RatingInputs == {0, 4, 6}
AvailabilityInputs == {None, Some(FALSE)}
LevelInputs == {"EmailVerified"}
MessageIdInputs == {<<>>, <<1>>, <<2, 1>>}
JobIds == 1..MaxJobs
DisputeIds == 1..MaxDisputes
Responses == {"Ok", "Panic", "JobNotFound", "NotAuthorized", "InvalidStatus",
              "AgentNotRegistered", "InvalidRating", "AgentAlreadyRegistered",
              "BidNotFound", "AlreadyBid", "CannotBidOwnJob", "DisputeNotFound",
              "DisputeAlreadyOpen", "MilestoneNotFound",
              "InvalidMilestonePercentages", "DeadlinePassed", "InvalidAmount"}

(* ------------------------------ maps ----------------------------------- *)
EmptyMap == [k \in {} |-> {}]
Insert(m, k, v) == [x \in (DOMAIN m) \cup {k} |-> IF x = k THEN v ELSE m[x]]
Has(m, k) == k \in DOMAIN m

(* The persisted state as one value. *)
St == [jobs |-> jobs, agents |-> agents, ratings |-> ratings,
       escrow |-> escrow, disputes |-> disputes, messages |-> messages,
       next_job_id |-> next_job_id, next_rating_id |-> next_rating_id,
       next_dispute_id |-> next_dispute_id,
       next_message_id |-> next_message_id]

Ret(s, r) == [st |-> s, res |-> r]

(* ----------------------------- post_job -------------------------------- *)
RECURSIVE SumNat(_)
SumNat(ms) == IF ms = <<>> THEN 0 ELSE Head(ms) + SumNat(Tail(ms))

(* iter().sum() into a u8 without overflow checks: wrapping addition. *)
RECURSIVE SumU8(_)
SumU8(ms) == IF ms = <<>> THEN 0
             ELSE (SumU8(SubSeq(ms, 1, Len(ms) - 1)) + ms[Len(ms)]) % U8Modulus

NewMilestones(ms) ==
    [i \in 1..Len(ms) |->
        [id |-> i - 1, payment_percentage |-> ms[i], status |-> "Pending"]]

DeadlineTs(deadline) ==
    IF deadline = None THEN None ELSE Some(Unwrap(deadline) * MicrosPerSecond)

(* A variant of post_job that takes the job id before it validates the
   percentages, so that a rejected call still consumes an id. *)
post_job_id_first(s, signer, payment, deadline, milestone_inputs, overflow_checks) ==
    IF signer = None THEN Ret(s, "NotAuthorized")
    ELSE LET job_id == s.next_job_id
             s1 == [s EXCEPT !.next_job_id = job_id + 1] IN
         IF milestone_inputs /= <<>> /\ SumU8(milestone_inputs) /= 100
         THEN Ret(s1, "InvalidMilestonePercentages")
         ELSE Ret([s1 EXCEPT !.jobs = Insert(s.jobs, job_id,
                     [id |-> job_id, client |-> Unwrap(signer),
                      payment |-> payment, status |-> "Posted",
                      agent |-> None, bids |-> <<>>,
                      deadline |-> DeadlineTs(deadline),
                      milestones |-> NewMilestones(milestone_inputs),
                      accepted_bid_amount |-> None, escrow_id |-> None])],
                  "Ok")

(* overflow_checks: whether the build traps on arithmetic overflow (a panic
   aborts the call and nothing is saved) or wraps. *)
post_job(s, signer, payment, deadline, milestone_inputs, overflow_checks) ==
    IF signer = None THEN Ret(s, "NotAuthorized")
    ELSE IF milestone_inputs /= <<>> /\ overflow_checks
            /\ SumNat(milestone_inputs) >= U8Modulus
    THEN Ret(s, "Panic")
    ELSE IF milestone_inputs /= <<>> /\ SumU8(milestone_inputs) /= 100
    THEN Ret(s, "InvalidMilestonePercentages")
    ELSE LET job_id == s.next_job_id
             job == [id |-> job_id,
                     client |-> Unwrap(signer),
                     payment |-> payment,
                     status |-> "Posted",
                     agent |-> None,
                     bids |-> <<>>,
                     deadline |-> DeadlineTs(deadline),
                     milestones |-> NewMilestones(milestone_inputs),
                     accepted_bid_amount |-> None,
                     escrow_id |-> None]
         IN Ret([s EXCEPT !.next_job_id = job_id + 1,
                          !.jobs = Insert(s.jobs, job_id, job)], "Ok")

(* ---------------------------- cancel_job ------------------------------- *)
(* A variant of cancel_job that also discards the bids. *)
cancel_job_drops_bids(s, signer, job_id) ==
    IF signer = None THEN Ret(s, "NotAuthorized")
    ELSE IF ~Has(s.jobs, job_id) THEN Ret(s, "JobNotFound")
    ELSE LET job == s.jobs[job_id] IN
         IF job.client /= Unwrap(signer) THEN Ret(s, "NotAuthorized")
         ELSE IF job.status /= "Posted" THEN Ret(s, "InvalidStatus")
         ELSE Ret([s EXCEPT !.jobs = Insert(s.jobs, job_id,
                                       [job EXCEPT !.status = "Cancelled",
                                                   !.bids = <<>>])],
                  "Ok")

cancel_job(s, signer, job_id) ==
    IF signer = None THEN Ret(s, "NotAuthorized")
    ELSE IF ~Has(s.jobs, job_id) THEN Ret(s, "JobNotFound")
    ELSE LET job == s.jobs[job_id] IN
         IF job.client /= Unwrap(signer) THEN Ret(s, "NotAuthorized")
         ELSE IF job.status /= "Posted" THEN Ret(s, "InvalidStatus")
         ELSE Ret([s EXCEPT !.jobs = Insert(s.jobs, job_id,
                                       [job EXCEPT !.status = "Cancelled"])],
                  "Ok")

(* ----------------------------- place_bid ------------------------------- *)
(* A variant of HasBidFrom that looks at the most recent bid only. *)
HasBidFromLatest(bids, a) == bids /= <<>> /\ bids[Len(bids)].agent = a

HasBidFrom(bids, a) == \E i \in 1..Len(bids) : bids[i].agent = a

(* A variant of place_bid that numbers the bids from one. *)
place_bid_one_based(s, t, signer, job_id, amount) ==
    IF signer = None THEN Ret(s, "NotAuthorized")
    ELSE LET caller == Unwrap(signer) IN
    IF ~Has(s.agents, caller) THEN Ret(s, "AgentNotRegistered")
    ELSE IF ~Has(s.jobs, job_id) THEN Ret(s, "JobNotFound")
    ELSE LET job == s.jobs[job_id] IN
         IF job.client = caller THEN Ret(s, "CannotBidOwnJob")
         ELSE IF job.status /= "Posted" THEN Ret(s, "InvalidStatus")
         ELSE IF job.deadline /= None /\ t > Unwrap(job.deadline)
         THEN Ret(s, "DeadlinePassed")
         ELSE IF HasBidFrom(job.bids, caller) THEN Ret(s, "AlreadyBid")
         ELSE IF amount = 0 THEN Ret(s, "InvalidAmount")
         ELSE LET bid == [agent |-> caller, bid_id |-> Len(job.bids) + 1,
                          amount |-> amount]
              IN Ret([s EXCEPT !.jobs = Insert(s.jobs, job_id,
                         [job EXCEPT !.bids = Append(job.bids, bid)])], "Ok")

(* A variant of place_bid that closes the bidding at the deadline instant. *)
place_bid_deadline_inclusive(s, t, signer, job_id, amount) ==
    IF signer = None THEN Ret(s, "NotAuthorized")
    ELSE LET caller == Unwrap(signer) IN
    IF ~Has(s.agents, caller) THEN Ret(s, "AgentNotRegistered")
    ELSE IF ~Has(s.jobs, job_id) THEN Ret(s, "JobNotFound")
    ELSE LET job == s.jobs[job_id] IN
         IF job.client = caller THEN Ret(s, "CannotBidOwnJob")
         ELSE IF job.status /= "Posted" THEN Ret(s, "InvalidStatus")
         ELSE IF job.deadline /= None /\ t >= Unwrap(job.deadline)
         THEN Ret(s, "DeadlinePassed")
         ELSE IF HasBidFrom(job.bids, caller) THEN Ret(s, "AlreadyBid")
         ELSE IF amount = 0 THEN Ret(s, "InvalidAmount")
         ELSE LET bid == [agent |-> caller, bid_id |-> Len(job.bids),
                          amount |-> amount]
              IN Ret([s EXCEPT !.jobs = Insert(s.jobs, job_id,
                         [job EXCEPT !.bids = Append(job.bids, bid)])], "Ok")

(* A variant of place_bid that numbers every bid 0. *)
place_bid_unnumbered(s, t, signer, job_id, amount) ==
    IF signer = None THEN Ret(s, "NotAuthorized")
    ELSE LET caller == Unwrap(signer) IN
    IF ~Has(s.agents, caller) THEN Ret(s, "AgentNotRegistered")
    ELSE IF ~Has(s.jobs, job_id) THEN Ret(s, "JobNotFound")
    ELSE LET job == s.jobs[job_id] IN
         IF job.client = caller THEN Ret(s, "CannotBidOwnJob")
         ELSE IF job.status /= "Posted" THEN Ret(s, "InvalidStatus")
         ELSE IF job.deadline /= None /\ t > Unwrap(job.deadline)
         THEN Ret(s, "DeadlinePassed")
         ELSE IF HasBidFrom(job.bids, caller) THEN Ret(s, "AlreadyBid")
         ELSE IF amount = 0 THEN Ret(s, "InvalidAmount")
         ELSE LET bid == [agent |-> caller, bid_id |-> 0,
                          amount |-> amount]
              IN Ret([s EXCEPT !.jobs = Insert(s.jobs, job_id,
                         [job EXCEPT !.bids = Append(job.bids, bid)])], "Ok")

place_bid(s, t, signer, job_id, amount) ==
    IF signer = None THEN Ret(s, "NotAuthorized")
    ELSE LET caller == Unwrap(signer) IN
    IF ~Has(s.agents, caller) THEN Ret(s, "AgentNotRegistered")
    ELSE IF ~Has(s.jobs, job_id) THEN Ret(s, "JobNotFound")
    ELSE LET job == s.jobs[job_id] IN
         IF job.client = caller THEN Ret(s, "CannotBidOwnJob")
         ELSE IF job.status /= "Posted" THEN Ret(s, "InvalidStatus")
         ELSE IF job.deadline /= None /\ t > Unwrap(job.deadline)
         THEN Ret(s, "DeadlinePassed")
         ELSE IF HasBidFrom(job.bids, caller) THEN Ret(s, "AlreadyBid")
         ELSE IF amount = 0 THEN Ret(s, "InvalidAmount")
         ELSE LET bid == [agent |-> caller, bid_id |-> Len(job.bids),
                          amount |-> amount]
              IN Ret([s EXCEPT !.jobs = Insert(s.jobs, job_id,
                         [job EXCEPT !.bids = Append(job.bids, bid)])], "Ok")

(* ---------------------------- withdraw_bid ----------------------------- *)
(* A variant of Retain that drops the most recent bid, whoever placed it. *)
RetainAllButLast(bids, caller) ==
    IF \E i \in 1..Len(bids) : bids[i].agent = caller
    THEN SubSeq(bids, 1, Len(bids) - 1)
    ELSE bids

Retain(bids, caller) == SelectSeq(bids, LAMBDA b : b.agent /= caller)

withdraw_bid(s, signer, job_id) ==
    IF signer = None THEN Ret(s, "NotAuthorized")
    ELSE IF ~Has(s.jobs, job_id) THEN Ret(s, "JobNotFound")
    ELSE LET job == s.jobs[job_id]
             kept == Retain(job.bids, Unwrap(signer)) IN
         IF job.status /= "Posted" THEN Ret(s, "InvalidStatus")
         ELSE IF Len(kept) = Len(job.bids) THEN Ret(s, "BidNotFound")
         ELSE Ret([s EXCEPT !.jobs = Insert(s.jobs, job_id,
                                       [job EXCEPT !.bids = kept])], "Ok")

(* ----------------------------- accept_bid ------------------------------ *)
(* A variant of BidExists that looks for the agent and not for the amount. *)
BidExistsFromAgent(bids, agent, bid_amount) ==
    \E i \in 1..Len(bids) : bids[i].agent = agent

BidExists(bids, agent, bid_amount) ==
    \E i \in 1..Len(bids) : bids[i].agent = agent /\ bids[i].amount = bid_amount

(* A variant of StartFirst that starts every milestone at once. *)
StartEvery(ms) == [i \in 1..Len(ms) |-> [ms[i] EXCEPT !.status = "InProgress"]]

(* A variant of StartFirst that starts the last milestone. *)
StartLast(ms) ==
    IF ms = <<>> THEN ms ELSE [ms EXCEPT ![Len(ms)].status = "InProgress"]

StartFirst(ms) ==
    IF ms = <<>> THEN ms ELSE [ms EXCEPT ![1].status = "InProgress"]

(* A variant of NewEscrow with the two parties the wrong way round. *)
NewEscrowSwapped(job_id, caller, agent, bid_amount, t) ==
    [job_id |-> job_id, client |-> agent, agent |-> Some(caller),
     amount |-> bid_amount, status |-> "Locked", released_at |-> None]

NewEscrow(job_id, caller, agent, bid_amount, t) ==
    [job_id |-> job_id, client |-> caller, agent |-> Some(agent),
     amount |-> bid_amount, status |-> "Locked", released_at |-> None]

(* A variant of accept_bid that takes the accepted bid off the list. *)
accept_bid_consumes(s, t, signer, job_id, agent, bid_amount) ==
    IF signer = None THEN Ret(s, "NotAuthorized")
    ELSE IF ~Has(s.jobs, job_id) THEN Ret(s, "JobNotFound")
    ELSE LET job == s.jobs[job_id]
             caller == Unwrap(signer) IN
         IF job.client /= caller THEN Ret(s, "NotAuthorized")
         ELSE IF job.status /= "Posted" THEN Ret(s, "InvalidStatus")
         ELSE IF ~BidExists(job.bids, agent, bid_amount)
         THEN Ret(s, "BidNotFound")
         ELSE LET escrow_id == job_id
                  job2 == [job EXCEPT !.status = "InProgress",
                                      !.agent = Some(agent),
                                      !.accepted_bid_amount = Some(bid_amount),
                                      !.escrow_id = Some(escrow_id),
                                      !.bids = Retain(job.bids, agent),
                                      !.milestones = StartFirst(job.milestones)]
              IN Ret([s EXCEPT
                        !.escrow = Insert(s.escrow, escrow_id,
                            NewEscrow(job_id, caller, agent, bid_amount, t)),
                        !.jobs = Insert(s.jobs, job_id, job2)], "Ok")

accept_bid(s, t, signer, job_id, agent, bid_amount) ==
    IF signer = None THEN Ret(s, "NotAuthorized")
    ELSE IF ~Has(s.jobs, job_id) THEN Ret(s, "JobNotFound")
    ELSE LET job == s.jobs[job_id]
             caller == Unwrap(signer) IN
         IF job.client /= caller THEN Ret(s, "NotAuthorized")
         ELSE IF job.status /= "Posted" THEN Ret(s, "InvalidStatus")
         ELSE IF ~BidExists(job.bids, agent, bid_amount)
         THEN Ret(s, "BidNotFound")
         ELSE LET escrow_id == job_id
                  job2 == [job EXCEPT !.status = "InProgress",
                                      !.agent = Some(agent),
                                      !.accepted_bid_amount = Some(bid_amount),
                                      !.escrow_id = Some(escrow_id),
                                      !.milestones = StartFirst(job.milestones)]
              IN Ret([s EXCEPT
                        !.escrow = Insert(s.escrow, escrow_id,
                            NewEscrow(job_id, caller, agent, bid_amount, t)),
                        !.jobs = Insert(s.jobs, job_id, job2)], "Ok")

(* ------------------------ milestone operations ------------------------- *)
(* iter().find(|m| m.id == milestone_id): index of the first match, 0 if none *)
FindMilestone(ms, milestone_id) ==
    LET hits == {i \in 1..Len(ms) : ms[i].id = milestone_id}
    IN IF hits = {} THEN 0 ELSE CHOOSE i \in hits : \A j \in hits : i <= j

FindPending(ms) ==
    LET hits == {i \in 1..Len(ms) : ms[i].status = "Pending"}
    IN IF hits = {} THEN 0 ELSE CHOOSE i \in hits : \A j \in hits : i <= j

AllApproved(ms) == \A i \in 1..Len(ms) : ms[i].status = "Approved"

(* A variant of submit_milestone that takes a submission on a job without
   milestones as the delivery of the whole job. *)
submit_milestone_whole_job(s, signer, job_id, milestone_id) ==
    IF signer = None THEN Ret(s, "NotAuthorized")
    ELSE IF ~Has(s.jobs, job_id) THEN Ret(s, "JobNotFound")
    ELSE LET job == s.jobs[job_id]
             i == FindMilestone(job.milestones, milestone_id) IN
         IF job.agent /= signer THEN Ret(s, "NotAuthorized")
         ELSE IF job.status /= "InProgress" THEN Ret(s, "InvalidStatus")
         ELSE IF job.milestones = <<>>
         THEN Ret([s EXCEPT !.jobs = Insert(s.jobs, job_id,
                     [job EXCEPT !.status = "PendingApproval"])], "Ok")
         ELSE IF i = 0 THEN Ret(s, "MilestoneNotFound")
         ELSE IF job.milestones[i].status /= "InProgress"
         THEN Ret(s, "InvalidStatus")
         ELSE Ret([s EXCEPT !.jobs = Insert(s.jobs, job_id,
                     [job EXCEPT !.milestones[i].status = "Submitted",
                                 !.status = "PendingApproval"])], "Ok")

(* A variant of submit_milestone that leaves the job's status as it was. *)
submit_milestone_job_untouched(s, signer, job_id, milestone_id) ==
    IF signer = None THEN Ret(s, "NotAuthorized")
    ELSE IF ~Has(s.jobs, job_id) THEN Ret(s, "JobNotFound")
    ELSE LET job == s.jobs[job_id]
             i == FindMilestone(job.milestones, milestone_id) IN
         IF job.agent /= signer THEN Ret(s, "NotAuthorized")
         ELSE IF job.status /= "InProgress" THEN Ret(s, "InvalidStatus")
         ELSE IF i = 0 THEN Ret(s, "MilestoneNotFound")
         ELSE IF job.milestones[i].status /= "InProgress"
         THEN Ret(s, "InvalidStatus")
         ELSE Ret([s EXCEPT !.jobs = Insert(s.jobs, job_id,
                     [job EXCEPT !.milestones[i].status = "Submitted"])], "Ok")

submit_milestone(s, signer, job_id, milestone_id) ==
    IF signer = None THEN Ret(s, "NotAuthorized")
    ELSE IF ~Has(s.jobs, job_id) THEN Ret(s, "JobNotFound")
    ELSE LET job == s.jobs[job_id]
             i == FindMilestone(job.milestones, milestone_id) IN
         IF job.agent /= signer THEN Ret(s, "NotAuthorized")
         ELSE IF job.status /= "InProgress" THEN Ret(s, "InvalidStatus")
         ELSE IF i = 0 THEN Ret(s, "MilestoneNotFound")
         ELSE IF job.milestones[i].status /= "InProgress"
         THEN Ret(s, "InvalidStatus")
         ELSE Ret([s EXCEPT !.jobs = Insert(s.jobs, job_id,
                     [job EXCEPT !.milestones[i].status = "Submitted",
                                 !.status = "PendingApproval"])], "Ok")

(* A variant of AfterApproval that does not start the next milestone. *)
AfterApprovalNoAdvance(job, i) ==
    LET ms1 == [job.milestones EXCEPT ![i].status = "Approved"] IN
    IF AllApproved(ms1)
    THEN [job EXCEPT !.milestones = ms1, !.status = "Completed"]
    ELSE [job EXCEPT !.milestones = ms1, !.status = "InProgress"]

AfterApproval(job, i) ==
    LET ms1 == [job.milestones EXCEPT ![i].status = "Approved"] IN
    IF AllApproved(ms1)
    THEN [job EXCEPT !.milestones = ms1, !.status = "Completed"]
    ELSE LET n == FindPending(ms1)
             ms2 == IF n = 0 THEN ms1
                    ELSE [ms1 EXCEPT ![n].status = "InProgress"]
         IN [job EXCEPT !.milestones = ms2, !.status = "InProgress"]

approve_milestone(s, signer, job_id, milestone_id) ==
    IF signer = None THEN Ret(s, "NotAuthorized")
    ELSE IF ~Has(s.jobs, job_id) THEN Ret(s, "JobNotFound")
    ELSE LET job == s.jobs[job_id]
             i == FindMilestone(job.milestones, milestone_id) IN
         IF job.client /= Unwrap(signer) THEN Ret(s, "NotAuthorized")
         ELSE IF i = 0 THEN Ret(s, "MilestoneNotFound")
         ELSE IF job.milestones[i].status /= "Submitted"
         THEN Ret(s, "InvalidStatus")
         ELSE Ret([s EXCEPT !.jobs = Insert(s.jobs, job_id,
                                              AfterApproval(job, i))], "Ok")

(* A variant of request_revision that hands the milestone straight back to
   the agent. *)
request_revision_restart(s, signer, job_id, milestone_id) ==
    IF signer = None THEN Ret(s, "NotAuthorized")
    ELSE IF ~Has(s.jobs, job_id) THEN Ret(s, "JobNotFound")
    ELSE LET job == s.jobs[job_id]
             i == FindMilestone(job.milestones, milestone_id) IN
         IF job.client /= Unwrap(signer) THEN Ret(s, "NotAuthorized")
         ELSE IF i = 0 THEN Ret(s, "MilestoneNotFound")
         ELSE IF job.milestones[i].status /= "Submitted"
         THEN Ret(s, "InvalidStatus")
         ELSE Ret([s EXCEPT !.jobs = Insert(s.jobs, job_id,
                     [job EXCEPT !.milestones[i].status = "InProgress",
                                 !.status = "InProgress"])], "Ok")

request_revision(s, signer, job_id, milestone_id) ==
    IF signer = None THEN Ret(s, "NotAuthorized")
    ELSE IF ~Has(s.jobs, job_id) THEN Ret(s, "JobNotFound")
    ELSE LET job == s.jobs[job_id]
             i == FindMilestone(job.milestones, milestone_id) IN
         IF job.client /= Unwrap(signer) THEN Ret(s, "NotAuthorized")
         ELSE IF i = 0 THEN Ret(s, "MilestoneNotFound")
         ELSE IF job.milestones[i].status /= "Submitted"
         THEN Ret(s, "InvalidStatus")
         ELSE Ret([s EXCEPT !.jobs = Insert(s.jobs, job_id,
                     [job EXCEPT !.milestones[i].status = "Rejected",
                                 !.status = "InProgress"])], "Ok")

(* ---------------------------- complete_job ----------------------------- *)
ApproveAll(ms) == [i \in 1..Len(ms) |-> [ms[i] EXCEPT !.status = "Approved"]]

(* ((success_rate as u64 * (total_jobs - 1) + 100) / total_jobs) as u8 *)
(* A variant of NewSuccessRate that divides only the bonus of the new job. *)
NewSuccessRateBonusDivided(old_rate, total_jobs) ==
    (old_rate * (total_jobs - 1) + 100 \div total_jobs) % U8Modulus

NewSuccessRate(old_rate, total_jobs) ==
    ((old_rate * (total_jobs - 1) + 100) \div total_jobs) % U8Modulus

(* A variant of ReleaseEscrow that forgets the release time. *)
ReleaseEscrowUnstamped(s, t, job) ==
    IF job.escrow_id /= None /\ Has(s.escrow, Unwrap(job.escrow_id))
    THEN LET escrow_id == Unwrap(job.escrow_id) IN
         [s EXCEPT !.escrow = Insert(s.escrow, escrow_id,
             [s.escrow[escrow_id] EXCEPT !.status = "Released"])]
    ELSE s

ReleaseEscrow(s, t, job) ==
    IF job.escrow_id /= None /\ Has(s.escrow, Unwrap(job.escrow_id))
    THEN LET escrow_id == Unwrap(job.escrow_id) IN
         [s EXCEPT !.escrow = Insert(s.escrow, escrow_id,
             [s.escrow[escrow_id] EXCEPT !.status = "Released",
                                         !.released_at = Some(t)])]
    ELSE s

UpdateAgentStats(s, job) ==
    IF job.agent /= None /\ Has(s.agents, Unwrap(job.agent))
    THEN LET agent_owner == Unwrap(job.agent)
             p == s.agents[agent_owner]
             total_jobs == p.jobs_completed + 1 IN
         [s EXCEPT !.agents = Insert(s.agents, agent_owner,
             [p EXCEPT !.jobs_completed = total_jobs,
                       !.success_rate =
                           NewSuccessRate(p.success_rate, total_jobs)])]
    ELSE s

complete_job(s, t, signer, job_id) ==
    IF signer = None THEN Ret(s, "NotAuthorized")
    ELSE IF ~Has(s.jobs, job_id) THEN Ret(s, "JobNotFound")
    ELSE LET job == s.jobs[job_id] IN
         IF job.client /= Unwrap(signer) THEN Ret(s, "NotAuthorized")
         ELSE IF job.status /= "InProgress" /\ job.status /= "PendingApproval"
         THEN Ret(s, "InvalidStatus")
         ELSE LET job2 == [job EXCEPT !.status = "Completed",
                                      !.milestones = ApproveAll(job.milestones)]
                  s1 == [s EXCEPT !.jobs = Insert(s.jobs, job_id, job2)]
                  s2 == ReleaseEscrow(s1, t, job2)
              IN Ret(UpdateAgentStats(s2, job2), "Ok")

(* --------------------------- agent operations -------------------------- *)
(* A variant of NewProfile that starts an agent without a success rate. *)
NewProfileUnrated(caller) ==
    [owner |-> caller, jobs_completed |-> 0, total_rating_points |-> 0,
     total_ratings |-> 0, verification_level |-> "Unverified",
     availability |-> TRUE, success_rate |-> 0]

NewProfile(caller) ==
    [owner |-> caller, jobs_completed |-> 0, total_rating_points |-> 0,
     total_ratings |-> 0, verification_level |-> "Unverified",
     availability |-> TRUE, success_rate |-> InitialSuccessRate]

register_agent(s, signer) ==
    IF signer = None THEN Ret(s, "NotAuthorized")
    ELSE LET caller == Unwrap(signer) IN
         IF Has(s.agents, caller) THEN Ret(s, "AgentAlreadyRegistered")
         ELSE Ret([s EXCEPT !.agents = Insert(s.agents, caller,
                                                NewProfile(caller))], "Ok")

update_agent_profile(s, signer, availability) ==
    IF signer = None THEN Ret(s, "NotAuthorized")
    ELSE LET caller == Unwrap(signer) IN
         IF ~Has(s.agents, caller) THEN Ret(s, "AgentNotRegistered")
         ELSE LET p == s.agents[caller]
                  p2 == IF availability = None THEN p
                        ELSE [p EXCEPT !.availability = Unwrap(availability)]
              IN Ret([s EXCEPT !.agents = Insert(s.agents, caller, p2)], "Ok")

request_verification(s, signer, level) ==
    IF signer = None THEN Ret(s, "NotAuthorized")
    ELSE LET caller == Unwrap(signer) IN
         IF ~Has(s.agents, caller) THEN Ret(s, "AgentNotRegistered")
         ELSE Ret([s EXCEPT !.agents = Insert(s.agents, caller,
                     [s.agents[caller] EXCEPT !.verification_level = level])],
                  "Ok")

(* ----------------------------- rate_agent ------------------------------ *)
rate_agent(s, signer, job_id, rating) ==
    IF rating < 1 \/ rating > 5 THEN Ret(s, "InvalidRating")
    ELSE IF signer = None THEN Ret(s, "NotAuthorized")
    ELSE IF ~Has(s.jobs, job_id) THEN Ret(s, "JobNotFound")
    ELSE LET job == s.jobs[job_id]
             caller == Unwrap(signer) IN
         IF job.status /= "Completed" THEN Ret(s, "InvalidStatus")
         ELSE IF job.client /= caller THEN Ret(s, "NotAuthorized")
         ELSE IF job.agent = None THEN Ret(s, "AgentNotRegistered")
         ELSE LET agent_owner == Unwrap(job.agent)
                  rating_id == s.next_rating_id
                  s1 == [s EXCEPT
                           !.next_rating_id = rating_id + 1,
                           !.ratings = Insert(s.ratings, rating_id,
                               [job_id |-> job_id, rater |-> caller,
                                rating |-> rating])]
              IN IF ~Has(s1.agents, agent_owner)
                 THEN Ret(s1, "AgentNotRegistered")
                 ELSE LET p == s1.agents[agent_owner] IN
                      Ret([s1 EXCEPT !.agents = Insert(s1.agents, agent_owner,
                             [p EXCEPT !.total_rating_points = @ + rating,
                                       !.total_ratings = @ + 1])], "Ok")

(* -------------------------- dispute operations ------------------------- *)
HasOpenDispute(s, job_id) ==
    \E d \in DOMAIN s.disputes :
        s.disputes[d].job_id = job_id /\ s.disputes[d].status = "Open"

open_dispute(s, signer, job_id) ==
    IF signer = None THEN Ret(s, "NotAuthorized")
    ELSE IF ~Has(s.jobs, job_id) THEN Ret(s, "JobNotFound")
    ELSE LET job == s.jobs[job_id]
             caller == Unwrap(signer) IN
         IF job.client /= caller /\ job.agent /= signer
         THEN Ret(s, "NotAuthorized")
         ELSE IF job.status /= "InProgress" /\ job.status /= "PendingApproval"
         THEN Ret(s, "InvalidStatus")
         ELSE IF HasOpenDispute(s, job_id) THEN Ret(s, "DisputeAlreadyOpen")
         ELSE LET dispute_id == s.next_dispute_id
                  dispute == [id |-> dispute_id, job_id |-> job_id,
                              initiator |-> caller, status |-> "Open",
                              resolved_at |-> None,
                              resolution_notes |-> None,
                              refund_percentage |-> None]
              IN Ret([s EXCEPT
                        !.next_dispute_id = dispute_id + 1,
                        !.disputes = Insert(s.disputes, dispute_id, dispute),
                        !.jobs = Insert(s.jobs, job_id,
                                     [job EXCEPT !.status = "Disputed"])],
                     "Ok")

respond_to_dispute(s, signer, dispute_id) ==
    IF signer = None THEN Ret(s, "NotAuthorized")
    ELSE IF ~Has(s.disputes, dispute_id) THEN Ret(s, "DisputeNotFound")
    ELSE LET dispute == s.disputes[dispute_id] IN
         IF ~Has(s.jobs, dispute.job_id) THEN Ret(s, "JobNotFound")
         ELSE LET job == s.jobs[dispute.job_id] IN
              IF job.client /= Unwrap(signer) /\ job.agent /= signer
              THEN Ret(s, "NotAuthorized")
              ELSE IF dispute.status /= "Open" THEN Ret(s, "InvalidStatus")
              ELSE Ret([s EXCEPT !.disputes = Insert(s.disputes, dispute_id,
                          [dispute EXCEPT !.status = "UnderReview"])], "Ok")

(* the match of resolve_dispute: the escrow status and the job status *)
(* A variant of EscrowAfter whose catch-all arm puts the funds back under
   lock instead of leaving the record as it is. *)
EscrowAfterRelock(resolution, old) ==
    CASE resolution = "ResolvedForClient" -> "Refunded"
      [] resolution = "ResolvedForAgent" -> "Released"
      [] resolution = "ResolvedSplit" -> "PartiallyRefunded"
      [] OTHER -> "Locked"

EscrowAfter(resolution, old) ==
    CASE resolution = "ResolvedForClient" -> "Refunded"
      [] resolution = "ResolvedForAgent" -> "Released"
      [] resolution = "ResolvedSplit" -> "PartiallyRefunded"
      [] OTHER -> old

(* A variant of JobAfter in which a split cancels the job. *)
JobAfterSplitCancels(resolution, old) ==
    CASE resolution = "ResolvedForClient" -> "Cancelled"
      [] resolution = "ResolvedForAgent" -> "Completed"
      [] resolution = "ResolvedSplit" -> "Cancelled"
      [] OTHER -> old

JobAfter(resolution, old) ==
    CASE resolution = "ResolvedForClient" -> "Cancelled"
      [] resolution = "ResolvedForAgent" -> "Completed"
      [] resolution = "ResolvedSplit" -> "Completed"
      [] OTHER -> old

(* A variant of resolve_dispute that turns away a caller who is neither the
   client nor the agent of the disputed job. *)
resolve_dispute_by_party(s, t, signer, dispute_id, resolution, refund_percentage, notes) ==
    IF signer = None THEN Ret(s, "NotAuthorized")
    ELSE IF ~Has(s.disputes, dispute_id) THEN Ret(s, "DisputeNotFound")
    ELSE IF /\ Has(s.jobs, s.disputes[dispute_id].job_id)
            /\ s.jobs[s.disputes[dispute_id].job_id].client /= Unwrap(signer)
            /\ s.jobs[s.disputes[dispute_id].job_id].agent /= signer
    THEN Ret(s, "NotAuthorized")
    ELSE LET dispute == [s.disputes[dispute_id] EXCEPT
                            !.status = resolution,
                            !.resolved_at = Some(t),
                            !.resolution_notes = Some(notes),
                            !.refund_percentage = refund_percentage]
             s1 == [s EXCEPT !.disputes = Insert(s.disputes, dispute_id, dispute)]
         IN IF ~Has(s1.jobs, dispute.job_id) THEN Ret(s1, "JobNotFound")
            ELSE LET job == s1.jobs[dispute.job_id] IN
                 IF job.escrow_id /= None /\ Has(s1.escrow, Unwrap(job.escrow_id))
                 THEN LET escrow_id == Unwrap(job.escrow_id)
                          e == s1.escrow[escrow_id]
                      IN Ret([s1 EXCEPT
                                !.escrow = Insert(s1.escrow, escrow_id,
                                    [e EXCEPT
                                       !.status = EscrowAfter(resolution, e.status),
                                       !.released_at = Some(t)]),
                                !.jobs = Insert(s1.jobs, dispute.job_id,
                                    [job EXCEPT
                                       !.status = JobAfter(resolution, job.status)])],
                             "Ok")
                 ELSE Ret([s1 EXCEPT !.jobs = Insert(s1.jobs, dispute.job_id, job)],
                          "Ok")

resolve_dispute(s, t, signer, dispute_id, resolution, refund_percentage, notes) ==
    IF signer = None THEN Ret(s, "NotAuthorized")
    ELSE IF ~Has(s.disputes, dispute_id) THEN Ret(s, "DisputeNotFound")
    ELSE LET dispute == [s.disputes[dispute_id] EXCEPT
                            !.status = resolution,
                            !.resolved_at = Some(t),
                            !.resolution_notes = Some(notes),
                            !.refund_percentage = refund_percentage]
             s1 == [s EXCEPT !.disputes = Insert(s.disputes, dispute_id, dispute)]
         IN IF ~Has(s1.jobs, dispute.job_id) THEN Ret(s1, "JobNotFound")
            ELSE LET job == s1.jobs[dispute.job_id] IN
                 IF job.escrow_id /= None /\ Has(s1.escrow, Unwrap(job.escrow_id))
                 THEN LET escrow_id == Unwrap(job.escrow_id)
                          e == s1.escrow[escrow_id]
                      IN Ret([s1 EXCEPT
                                !.escrow = Insert(s1.escrow, escrow_id,
                                    [e EXCEPT
                                       !.status = EscrowAfter(resolution, e.status),
                                       !.released_at = Some(t)]),
                                !.jobs = Insert(s1.jobs, dispute.job_id,
                                    [job EXCEPT
                                       !.status = JobAfter(resolution, job.status)])],
                             "Ok")
                 ELSE Ret([s1 EXCEPT !.jobs = Insert(s1.jobs, dispute.job_id, job)],
                          "Ok")

(* ------------------------- messaging operations ------------------------ *)
send_message(s, signer, job_id, recipient) ==
    IF signer = None THEN Ret(s, "NotAuthorized")
    ELSE IF ~Has(s.jobs, job_id) THEN Ret(s, "JobNotFound")
    ELSE LET job == s.jobs[job_id]
             caller == Unwrap(signer) IN
         IF job.client /= caller /\ job.agent /= signer
         THEN Ret(s, "NotAuthorized")
         ELSE LET message_id == s.next_message_id IN
              Ret([s EXCEPT
                     !.next_message_id = message_id + 1,
                     !.messages = Insert(s.messages, message_id,
                         [id |-> message_id, job_id |-> job_id,
                          sender |-> caller, recipient |-> recipient,
                          read |-> FALSE])], "Ok")

RECURSIVE MarkRead(_, _, _)
MarkRead(msgs, caller, message_ids) ==
    IF message_ids = <<>> THEN msgs
    ELSE LET msg_id == Head(message_ids)
             m1 == IF Has(msgs, msg_id) /\ msgs[msg_id].recipient = caller
                   THEN Insert(msgs, msg_id, [msgs[msg_id] EXCEPT !.read = TRUE])
                   ELSE msgs
         IN MarkRead(m1, caller, Tail(message_ids))

(* A variant of mark_messages_read that flips the flag of each listed message
   of the caller instead of setting it. *)
mark_messages_read_flipping(s, signer, message_ids) ==
    IF signer = None THEN Ret(s, "NotAuthorized")
    ELSE Ret([s EXCEPT !.messages =
                 [m \in DOMAIN s.messages |->
                     IF /\ \E i \in 1..Len(message_ids) : message_ids[i] = m
                        /\ s.messages[m].recipient = Unwrap(signer)
                     THEN [s.messages[m] EXCEPT !.read = ~@]
                     ELSE s.messages[m]]], "Ok")

mark_messages_read(s, signer, message_ids) ==
    IF signer = None THEN Ret(s, "NotAuthorized")
    ELSE Ret([s EXCEPT !.messages =
                 MarkRead(s.messages, Unwrap(signer), message_ids)], "Ok")

(* ------------------------------ behaviour ------------------------------ *)
(* instantiate(): every id register starts at 1, every map is empty *)
Init ==
    /\ jobs = EmptyMap
    /\ agents = EmptyMap
    /\ ratings = EmptyMap
    /\ escrow = EmptyMap
    /\ disputes = EmptyMap
    /\ messages = EmptyMap
    /\ next_job_id = FirstId
    /\ next_rating_id = FirstId
    /\ next_dispute_id = FirstId
    /\ next_message_id = FirstId
    /\ now = 0
    /\ last = [op |-> "instantiate", res |-> "Ok"]

(* store(): the state the handler left is saved, whatever it returned.  last
   is the most recent call that changed the saved state. *)
Commit(op, r) ==
    /\ jobs' = r.st.jobs
    /\ agents' = r.st.agents
    /\ ratings' = r.st.ratings
    /\ escrow' = r.st.escrow
    /\ disputes' = r.st.disputes
    /\ messages' = r.st.messages
    /\ next_job_id' = r.st.next_job_id
    /\ next_rating_id' = r.st.next_rating_id
    /\ next_dispute_id' = r.st.next_dispute_id
    /\ next_message_id' = r.st.next_message_id
    /\ now' = now
    /\ last' = IF r.st /= St THEN [op |-> op, res |-> r.res] ELSE last

(* One action per Operation of execute_operation.  c is the scope of the
   exploration: who calls, the inputs tried, how many records of each kind
   may be created and how far the clock runs.  A call that leaves the saved
   state as it was is a stuttering step. *)
PostJob(c) ==
    \E signer \in c.posters, payment \in Payments, deadline \in c.deadlines,
       ms \in c.milestones, overflow_checks \in BOOLEAN :
        LET r == post_job(St, signer, payment, deadline, ms, overflow_checks) IN
        /\ r.st /= St => next_job_id <= c.max_jobs
        /\ Commit("post_job", r)

CancelJob(c) ==
    \E signer \in c.signers, job_id \in c.job_ids :
        LET r == cancel_job(St, signer, job_id) IN
        /\ r.res \in Responses
        /\ Commit("cancel_job", r)

PlaceBid(c) ==
    \E signer \in c.signers, job_id \in c.job_ids, amount \in c.bid_amounts :
        LET r == place_bid(St, now, signer, job_id, amount) IN
        /\ r.res \in Responses
        /\ Commit("place_bid", r)

WithdrawBid(c) ==
    \E signer \in c.signers, job_id \in c.job_ids :
        LET r == withdraw_bid(St, signer, job_id) IN
        /\ r.res \in Responses
        /\ Commit("withdraw_bid", r)

AcceptBid(c) ==
    \E signer \in c.signers, job_id \in c.job_ids, agent \in Users,
       bid_amount \in c.accept_amounts :
        LET r == accept_bid(St, now, signer, job_id, agent, bid_amount) IN
        /\ r.res \in Responses
        /\ Commit("accept_bid", r)

SubmitMilestone(c) ==
    \E signer \in c.signers, job_id \in c.job_ids, milestone_id \in c.milestone_ids :
        LET r == submit_milestone(St, signer, job_id, milestone_id) IN
        /\ r.res \in Responses
        /\ Commit("submit_milestone", r)

ApproveMilestone(c) ==
    \E signer \in c.signers, job_id \in c.job_ids, milestone_id \in c.milestone_ids :
        LET r == approve_milestone(St, signer, job_id, milestone_id) IN
        /\ r.res \in Responses
        /\ Commit("approve_milestone", r)

RequestRevision(c) ==
    \E signer \in c.signers, job_id \in c.job_ids, milestone_id \in c.milestone_ids :
        LET r == request_revision(St, signer, job_id, milestone_id) IN
        /\ r.res \in Responses
        /\ Commit("request_revision", r)

CompleteJob(c) ==
    \E signer \in c.signers, job_id \in c.job_ids :
        LET r == complete_job(St, now, signer, job_id) IN
        /\ r.res \in Responses
        /\ Commit("complete_job", r)

RegisterAgent(c) ==
    \E signer \in c.registrants :
        LET r == register_agent(St, signer) IN
        /\ r.res \in Responses
        /\ Commit("register_agent", r)

UpdateAgentProfile(c) ==
    \E signer \in c.signers, availability \in c.availability :
        LET r == update_agent_profile(St, signer, availability) IN
        /\ r.res \in Responses
        /\ Commit("update_agent_profile", r)

RequestVerification(c) ==
    \E signer \in c.signers, level \in c.levels :
        LET r == request_verification(St, signer, level) IN
        /\ r.res \in Responses
        /\ Commit("request_verification", r)

RateAgent(c) ==
    \E signer \in c.signers, job_id \in c.job_ids, rating \in c.ratings :
        LET r == rate_agent(St, signer, job_id, rating) IN
        /\ r.st /= St => next_rating_id <= c.max_ratings
        /\ Commit("rate_agent", r)

OpenDispute(c) ==
    \E signer \in c.signers, job_id \in c.job_ids :
        LET r == open_dispute(St, signer, job_id) IN
        /\ r.st /= St => next_dispute_id <= c.max_disputes
        /\ Commit("open_dispute", r)

RespondToDispute(c) ==
    \E signer \in c.signers, dispute_id \in DisputeIds :
        LET r == respond_to_dispute(St, signer, dispute_id) IN
        /\ r.res \in Responses
        /\ Commit("respond_to_dispute", r)

ResolveDispute(c) ==
    \E signer \in c.resolvers, dispute_id \in DisputeIds,
       resolution \in Resolutions, refund_percentage \in c.refunds,
       notes \in NoteInputs :
        LET r == resolve_dispute(St, now, signer, dispute_id, resolution,
                                 refund_percentage, notes) IN
        /\ r.res \in Responses
        /\ Commit("resolve_dispute", r)

SendMessage(c) ==
    \E signer \in c.signers, job_id \in c.job_ids, recipient \in c.recipients :
        LET r == send_message(St, signer, job_id, recipient) IN
        /\ r.st /= St => next_message_id <= c.max_messages
        /\ Commit("send_message", r)

MarkMessagesRead(c) ==
    \E signer \in c.signers, message_ids \in c.message_ids :
        LET r == mark_messages_read(St, signer, message_ids) IN
        /\ r.res \in Responses
        /\ Commit("mark_messages_read", r)

(* runtime.system_time() moves on between calls *)
Tick(c) ==
    /\ now < c.max_time * MicrosPerSecond
    /\ now' = now + MicrosPerSecond
    /\ UNCHANGED <<jobs, agents, ratings, escrow, disputes, messages,
                   next_job_id, next_rating_id, next_dispute_id,
                   next_message_id, last>>

NextIn(c) ==
    \/ PostJob(c) \/ CancelJob(c) \/ PlaceBid(c) \/ WithdrawBid(c)
    \/ AcceptBid(c) \/ SubmitMilestone(c) \/ ApproveMilestone(c)
    \/ RequestRevision(c) \/ CompleteJob(c) \/ RegisterAgent(c)
    \/ UpdateAgentProfile(c) \/ RequestVerification(c) \/ RateAgent(c)
    \/ OpenDispute(c) \/ RespondToDispute(c) \/ ResolveDispute(c)
    \/ SendMessage(c) \/ MarkMessagesRead(c) \/ Tick(c)

(* The job lifecycle with its escrow and disputes: alice posts, bob bids,
   carol is a third party. *)
Lifecycle ==
    [signers |-> {Some(u) : u \in Users},
     posters |-> {None, Some("alice")},
     registrants |-> {Some("bob")},
     resolvers |-> {Some("alice"), Some("carol")},
     milestones |-> {<<>>, <<60, 40>>, <<60, 50>>},
     deadlines |-> {None},
     bid_amounts |-> {90},
     accept_amounts |-> {90},
     milestone_ids |-> {0, 1},
     refunds |-> {Some(50)},
     ratings |-> {4},
     recipients |-> {"alice"},
     message_ids |-> {<<1>>},
     availability |-> {None},
     levels |-> {"Unverified"},
     job_ids |-> JobIds,
     max_jobs |-> MaxJobs,
     max_disputes |-> MaxDisputes,
     max_ratings |-> 0,
     max_messages |-> 0,
     max_time |-> MaxTime]

Next == NextIn(Lifecycle)

Spec == Init /\ [][Next]_vars

(* Posting and bidding: alice posts; alice, bob and carol register and bid;
   the clock runs past the deadline; no dispute is opened. *)
Bidding ==
    [signers |-> {Some(u) : u \in Users},
     posters |-> {None, Some("alice")},
     registrants |-> {Some(u) : u \in Users},
     resolvers |-> {Some("carol")},
     milestones |-> MilestoneInputs,
     deadlines |-> DeadlineInputs,
     bid_amounts |-> BidAmounts,
     accept_amounts |-> AcceptAmounts,
     milestone_ids |-> {0, 1},
     refunds |-> {Some(50)},
     ratings |-> {4},
     recipients |-> {"alice"},
     message_ids |-> {<<1>>},
     availability |-> {None},
     levels |-> {"Unverified"},
     job_ids |-> JobIds,
     max_jobs |-> MaxJobs,
     max_disputes |-> 0,
     max_ratings |-> 0,
     max_messages |-> 0,
     max_time |-> MaxTime]

NextBidding == NextIn(Bidding)

SpecBidding == Init /\ [][NextBidding]_vars

(* Jobs with a deadline and with no milestone or three: alice posts, bob
   bids, carol resolves the disputes. *)
Milestones ==
    [Lifecycle EXCEPT !.milestones = {<<>>, <<50, 30, 20>>},
                      !.deadlines = {Some(0)},
                      !.milestone_ids = MilestoneIds,
                      !.resolvers = {Some("carol")}]

NextMilestones == NextIn(Milestones)

SpecMilestones == Init /\ [][NextMilestones]_vars

(* An agent's record over two jobs without milestones: alice posts both, bob
   bids on them and does them, alice rates him. *)
Career ==
    [Lifecycle EXCEPT !.milestones = {<<>>},
                      !.signers = {Some("alice"), Some("bob")},
                      !.resolvers = {Some("alice")},
                      !.ratings = RatingInputs,
                      !.job_ids = 1..MaxCareerJobs,
                      !.max_jobs = MaxCareerJobs,
                      !.max_disputes = 1,
                      !.max_ratings = MaxRatings]

NextCareer == NextIn(Career)

SpecCareer == Init /\ [][NextCareer]_vars

(* The messages of one job without milestones: alice and bob write to each
   other and to carol, and each marks messages as read. *)
Messaging ==
    [Lifecycle EXCEPT !.milestones = {<<>>},
                      !.resolvers = {Some("carol")},
                      !.recipients = Users,
                      !.message_ids = MessageIdInputs,
                      !.max_disputes = 0,
                      !.max_messages = MaxMessages]

NextMessaging == NextIn(Messaging)

SpecMessaging == Init /\ [][NextMessaging]_vars

(* =============================== claims ================================ *)
(* Every call the checks below try on a reachable state. *)
AnyJobId == 1..(MaxJobs + 1)
AnyDisputeId == 1..(MaxDisputes + 1)
AnyAmount == BidAmounts \cup AcceptAmounts
Inactive == {"Posted", "Cancelled"}
Terminal == {"Completed", "Cancelled"}

(* C1: in every reachable state, a job's agent is set if and only if its
   status is neither Posted nor Cancelled. *)
C1_AgentIffActive ==
    \A j \in DOMAIN jobs :
        (jobs[j].agent /= None) <=> (jobs[j].status \notin Inactive)

(* C2: in every reachable state, a job's escrow_id is set if and only if its
   status is neither Posted nor Cancelled. *)
C2_EscrowIdIffActive ==
    \A j \in DOMAIN jobs :
        (jobs[j].escrow_id /= None) <=> (jobs[j].status \notin Inactive)

(* C3: Completed and Cancelled are terminal: no step changes the status of a
   job that is Completed or Cancelled. *)
C3_TerminalIsFinal ==
    [][\A j \in DOMAIN jobs :
          jobs[j].status \in Terminal => jobs'[j].status = jobs[j].status]_vars

(* C4: an escrow record that has left Locked is never written again: no step
   changes its status or its release timestamp. *)
C4_EscrowSettledOnce ==
    [][\A e \in DOMAIN escrow :
          escrow[e].status /= "Locked" =>
              /\ escrow'[e].status = escrow[e].status
              /\ escrow'[e].released_at = escrow[e].released_at]_vars

(* No accept_bid call succeeds for a job that already has an escrow record. *)
NoSecondLock ==
    \A e \in DOMAIN escrow :
        \A signer \in Signers, agent \in Users, amount \in AnyAmount :
            accept_bid(St, now, signer, e, agent, amount).res /= "Ok"

(* C5: an escrow record appears only in a step of accept_bid, and appears
   Locked; no accept_bid call succeeds for a job that already has a record;
   a record is never removed, and once it has left Locked no step sets it
   back to Locked. *)
C5_EscrowCreatedOnceNeverRelocked ==
    /\ []NoSecondLock
    /\ [][/\ \A e \in DOMAIN escrow' \ DOMAIN escrow :
                 last'.op = "accept_bid" /\ escrow'[e].status = "Locked"
          /\ \A e \in DOMAIN escrow :
                 /\ e \in DOMAIN escrow'
                 /\ escrow[e].status /= "Locked" =>
                        escrow'[e].status /= "Locked"
         ]_vars

C5_Witness ==
    /\ last.op = "resolve_dispute"
    /\ \E e \in DOMAIN escrow : escrow[e].status = "Refunded"
    /\ \E d \in DOMAIN disputes : disputes[d].status = "Open"

(* Each escrow record agrees with the job it is keyed by. *)
EscrowMatchesJob ==
    \A e \in DOMAIN escrow :
        /\ e \in DOMAIN jobs
        /\ escrow[e].job_id = e
        /\ jobs[e].escrow_id = Some(e)
        /\ jobs[e].accepted_bid_amount = Some(escrow[e].amount)
        /\ escrow[e].client = jobs[e].client
        /\ escrow[e].agent = jobs[e].agent
        /\ escrow[e].agent /= None

(* C6: for every escrow record, in every reachable state, the job it belongs
   to names it, its amount is the job's accepted_bid_amount, its client and
   agent are the job's client and bound agent; and no step changes the
   amount of an existing record. *)
C6_EscrowAmountIsAcceptedBid ==
    /\ []EscrowMatchesJob
    /\ [][\A e \in DOMAIN escrow :
              e \in DOMAIN escrow' /\ escrow'[e].amount = escrow[e].amount
         ]_vars

C6_Witness ==
    /\ last.op = "resolve_dispute"
    /\ \E e \in DOMAIN escrow :
           escrow[e].status = "PartiallyRefunded" /\ escrow[e].amount = 90

(* C7: a job's status agrees with its escrow record: InProgress,
   PendingApproval and Disputed go with Locked, Completed with Released or
   PartiallyRefunded, Cancelled (with a record) with Refunded. *)
C7_StatusMatchesEscrow ==
    \A j \in DOMAIN jobs :
        LET st == jobs[j].status IN
        /\ st \in {"InProgress", "PendingApproval", "Disputed"} =>
               j \in DOMAIN escrow /\ escrow[j].status = "Locked"
        /\ st = "Completed" =>
               j \in DOMAIN escrow
               /\ escrow[j].status \in {"Released", "PartiallyRefunded"}
        /\ (st = "Cancelled" /\ j \in DOMAIN escrow) =>
               escrow[j].status = "Refunded"

(* The disputes of job j whose status is Open. *)
OpenDisputesOf(j) ==
    {d \in DOMAIN disputes :
        disputes[d].job_id = j /\ disputes[d].status = "Open"}

(* C8: in every reachable state, at most one dispute with status Open
   references any one job. *)
C8_AtMostOneOpenDispute ==
    \A j \in DOMAIN jobs : Cardinality(OpenDisputesOf(j)) <= 1

(* A call that returned an error left the state as it found it. *)
Clean(r) == r.res /= "Ok" => r.st = St

(* C9: whatever call is made on a reachable state, if it returns an error
   the state it leaves is the state it found. *)
C9_NoPartialFailure ==
    /\ \A signer \in Signers :
         /\ Clean(register_agent(St, signer))
         /\ \A availability \in AvailabilityInputs :
                Clean(update_agent_profile(St, signer, availability))
         /\ \A level \in LevelInputs :
                Clean(request_verification(St, signer, level))
         /\ \A message_ids \in MessageIdInputs :
                Clean(mark_messages_read(St, signer, message_ids))
         /\ \A deadline \in DeadlineInputs, ms \in MilestoneInputs,
               overflow_checks \in BOOLEAN, payment \in Payments :
                Clean(post_job(St, signer, payment, deadline, ms,
                               overflow_checks))
         /\ \A j \in AnyJobId :
              /\ Clean(cancel_job(St, signer, j))
              /\ Clean(withdraw_bid(St, signer, j))
              /\ Clean(complete_job(St, now, signer, j))
              /\ Clean(open_dispute(St, signer, j))
              /\ \A amount \in AnyAmount :
                   /\ Clean(place_bid(St, now, signer, j, amount))
                   /\ \A agent \in Users :
                          Clean(accept_bid(St, now, signer, j, agent, amount))
              /\ \A m \in MilestoneIds :
                   /\ Clean(submit_milestone(St, signer, j, m))
                   /\ Clean(approve_milestone(St, signer, j, m))
                   /\ Clean(request_revision(St, signer, j, m))
              /\ \A rating \in RatingInputs :
                     Clean(rate_agent(St, signer, j, rating))
              /\ \A recipient \in Users :
                     Clean(send_message(St, signer, j, recipient))
         /\ \A d \in AnyDisputeId :
              /\ Clean(respond_to_dispute(St, signer, d))
              /\ \A resolution \in Resolutions, refund \in RefundInputs,
                    notes \in NoteInputs :
                     Clean(resolve_dispute(St, now, signer, d, resolution,
                                           refund, notes))

C9_Witness ==
    /\ last.op = "resolve_dispute"
    /\ resolve_dispute(St, now, Some("carol"), 2, "ResolvedForAgent",
                       None, "n").res = "DisputeNotFound"
    /\ rate_agent(St, Some("bob"), 1, 4).res = "NotAuthorized"
    /\ rate_agent(St, None, 1, 6).res = "InvalidRating"
    /\ complete_job(St, now, Some("alice"), 1).res = "InvalidStatus"

(* The payment percentages of a milestone list. *)
Percentages(ms) == [i \in 1..Len(ms) |-> ms[i].payment_percentage]

(* C10: every stored job that has milestones has payment percentages that
   sum, as natural numbers, to exactly 100. *)
C10_MilestonesSumTo100 ==
    \A j \in DOMAIN jobs :
        jobs[j].milestones /= <<>> =>
            SumNat(Percentages(jobs[j].milestones)) = 100

(* C11: in every reachable state, no job's bid list holds two bids of the
   same agent. *)
C11_OneBidPerAgent ==
    \A j \in DOMAIN jobs :
        \A i, k \in 1..Len(jobs[j].bids) :
            jobs[j].bids[i].agent = jobs[j].bids[k].agent => i = k

(* Two agents hold a bid each, one of them placed again after a withdrawal
   (the first bid of the list was once the second). *)
C11_Witness ==
    /\ last.op = "place_bid"
    /\ \E j \in DOMAIN jobs :
           /\ Len(jobs[j].bids) = 2
           /\ jobs[j].bids[1].bid_id = 1
           /\ jobs[j].bids[1].agent /= jobs[j].bids[2].agent

(* C12: whenever approve_milestone, called by anyone on any milestone of a
   job, succeeds and leaves the job Completed, the profile of the job's
   agent has jobs_completed one higher than before the call. *)
C12_LastApprovalCountsJob ==
    \A signer \in Signers, j \in DOMAIN jobs, m \in MilestoneIds :
        LET r == approve_milestone(St, signer, j, m) IN
        (r.res = "Ok" /\ r.st.jobs[j].status = "Completed") =>
            /\ jobs[j].agent /= None
            /\ Unwrap(jobs[j].agent) \in DOMAIN agents
            /\ r.st.agents[Unwrap(jobs[j].agent)].jobs_completed =
                   agents[Unwrap(jobs[j].agent)].jobs_completed + 1

(* What accept_bid is to return for an existing job, read off the caller,
   the job status and the bid list. *)
AcceptOutcome(job, signer, agent, amount) ==
    IF signer /= Some(job.client) THEN "NotAuthorized"
    ELSE IF job.status /= "Posted" THEN "InvalidStatus"
    ELSE IF ~\E i \in 1..Len(job.bids) :
                job.bids[i] = [agent |-> agent, bid_id |-> job.bids[i].bid_id,
                               amount |-> amount]
    THEN "BidNotFound"
    ELSE "Ok"

(* What a successful accept_bid is to leave behind. *)
AcceptEffect(r, j, signer, agent, amount) ==
    LET before == jobs[j]
        after == r.st.jobs[j] IN
    /\ j \in DOMAIN r.st.escrow
    /\ r.st.escrow[j].status = "Locked"
    /\ r.st.escrow[j].amount = amount
    /\ after.status = "InProgress"
    /\ after.agent = Some(agent)
    /\ after.accepted_bid_amount = Some(amount)
    /\ Len(after.milestones) = Len(before.milestones)
    /\ \A i \in 1..Len(after.milestones) :
           after.milestones[i].status =
               IF i = 1 THEN "InProgress" ELSE "Pending"
    /\ after.bids = before.bids
    /\ after.client = before.client

(* C13: on an existing job, accept_bid returns Ok exactly when the caller is
   the client, the job is Posted and the bid list holds a bid of the named
   agent at the named amount; otherwise NotAuthorized, InvalidStatus or
   BidNotFound, in that order of precedence; on Ok the escrow record is
   Locked at the bid amount, the job is InProgress with the agent bound and
   the amount recorded, the first milestone is InProgress and the others
   are Pending. *)
C13_AcceptBid ==
    \A signer \in Signers, j \in DOMAIN jobs, agent \in Users,
       amount \in AnyAmount :
        LET r == accept_bid(St, now, signer, j, agent, amount) IN
        /\ r.res = AcceptOutcome(jobs[j], signer, agent, amount)
        /\ r.res = "Ok" => AcceptEffect(r, j, signer, agent, amount)

(* A bid has just been accepted on a job with two milestones, while a second
   agent's bid stays on the list. *)
C13_Witness ==
    /\ last.op = "accept_bid"
    /\ \E j \in DOMAIN jobs :
           /\ jobs[j].status = "InProgress"
           /\ Len(jobs[j].milestones) = 2
           /\ Len(jobs[j].bids) = 2
           /\ accept_bid(St, now, Some(jobs[j].client), j, "carol", 90).res
                  = "InvalidStatus"

(* The three statuses a dispute is resolved with, and for each the escrow
   status and the job status the resolution is to leave. *)
ResolvedStatuses == {"ResolvedForClient", "ResolvedForAgent", "ResolvedSplit"}
EscrowOutcome ==
    [ResolvedForClient |-> "Refunded", ResolvedForAgent |-> "Released",
     ResolvedSplit |-> "PartiallyRefunded"]
JobOutcome ==
    [ResolvedForClient |-> "Cancelled", ResolvedForAgent |-> "Completed",
     ResolvedSplit |-> "Completed"]

(* C14: on every reachable state, for every existing dispute, every
   authenticated caller and each of the three resolutions, resolve_dispute
   succeeds; it leaves the escrow record of the dispute's job with the status
   that goes with the resolution (Refunded, Released, PartiallyRefunded) and
   the job with the status that goes with it (Cancelled, Completed,
   Completed), whatever they were before; and the dispute holds the
   resolution, the notes and the refund percentage of the call and the time
   of the call. *)
C14_ResolutionDecidesOutcome ==
    \A signer \in Signers \ {None}, d \in DOMAIN disputes,
       resolution \in ResolvedStatuses, refund \in RefundInputs,
       notes \in NoteInputs :
        LET r == resolve_dispute(St, now, signer, d, resolution, refund, notes)
            j == disputes[d].job_id IN
        /\ r.res = "Ok"
        /\ j \in DOMAIN r.st.escrow
        /\ r.st.escrow[j].status = EscrowOutcome[resolution]
        /\ r.st.jobs[j].status = JobOutcome[resolution]
        /\ r.st.disputes[d].status = resolution
        /\ r.st.disputes[d].resolution_notes = Some(notes)
        /\ r.st.disputes[d].refund_percentage = refund
        /\ r.st.disputes[d].resolved_at = Some(now)

(* A dispute has been resolved for the agent after the clock moved on. *)
C14_Witness ==
    /\ last.op = "resolve_dispute"
    /\ \E d \in DOMAIN disputes :
           /\ disputes[d].status = "ResolvedForAgent"
           /\ disputes[d].resolved_at = Some(MicrosPerSecond)
           /\ jobs[disputes[d].job_id].status = "Completed"
           /\ escrow[disputes[d].job_id].status = "Released"

(* C15: on a job that has a dispute with status Open, open_dispute called by
   the client or by the bound agent returns DisputeAlreadyOpen and leaves
   the state as it was. *)
C15_SecondDisputeRejected ==
    \A j \in DOMAIN jobs, signer \in Signers \ {None} :
        ((signer = Some(jobs[j].client) \/ signer = jobs[j].agent)
            /\ OpenDisputesOf(j) /= {}) =>
            LET r == open_dispute(St, signer, j) IN
            r.res = "DisputeAlreadyOpen" /\ r.st = St

(* C16: a step that makes a job Disputed finds it InProgress or
   PendingApproval, and a step that changes the status of a Disputed job
   leaves it Cancelled or Completed. *)
C16_DisputedTransitions ==
    [][\A j \in DOMAIN jobs :
          /\ (jobs[j].status /= "Disputed" /\ jobs'[j].status = "Disputed") =>
                 jobs[j].status \in {"InProgress", "PendingApproval"}
          /\ (jobs[j].status = "Disputed" /\ jobs'[j].status /= "Disputed") =>
                 jobs'[j].status \in Terminal]_vars

(* How far along Open, UnderReview, resolved a dispute status is. *)
DisputeRank(status) ==
    CASE status = "Open" -> 0
      [] status = "UnderReview" -> 1
      [] OTHER -> 2

(* What respond_to_dispute is to return for an existing dispute. *)
RespondOutcome(d, signer) ==
    LET job == jobs[disputes[d].job_id] IN
    IF signer /= Some(job.client) /\ signer /= job.agent THEN "NotAuthorized"
    ELSE IF disputes[d].status /= "Open" THEN "InvalidStatus"
    ELSE "Ok"

(* C17: respond_to_dispute succeeds only for the client or the agent of the
   job and only on an Open dispute, which it leaves UnderReview, and returns
   InvalidStatus to them otherwise; every step that changes a dispute's
   status moves it forward along Open, UnderReview, resolved, so a resolved
   dispute keeps its status; and a dispute that carries a resolution time
   is in one of the three resolved statuses. *)
C17_DisputeStatusForward ==
    [][\A d \in DOMAIN disputes :
          /\ \A signer \in Signers \ {None} :
                 LET r == respond_to_dispute(St, signer, d) IN
                 /\ r.res = RespondOutcome(d, signer)
                 /\ r.res = "Ok" => r.st.disputes[d].status = "UnderReview"
          /\ disputes'[d].status /= disputes[d].status =>
                 DisputeRank(disputes'[d].status) > DisputeRank(disputes[d].status)
          /\ disputes'[d].resolved_at /= None =>
                 disputes'[d].status \in ResolvedStatuses]_vars

(* A call without an authenticated caller is refused and changes nothing. *)
Refused(r) == r.res = "NotAuthorized" /\ r.st = St

(* C18: on every reachable state, every operation called without an
   authenticated caller returns NotAuthorized, whatever its other arguments
   (rate_agent with a rating outside 1..5 included), and leaves the state as
   it was. *)
C18_NoCallerNotAuthorized ==
    /\ Refused(register_agent(St, None))
    /\ \A availability \in AvailabilityInputs :
           Refused(update_agent_profile(St, None, availability))
    /\ \A level \in LevelInputs :
           Refused(request_verification(St, None, level))
    /\ \A message_ids \in MessageIdInputs :
           Refused(mark_messages_read(St, None, message_ids))
    /\ \A deadline \in DeadlineInputs, ms \in MilestoneInputs,
          overflow_checks \in BOOLEAN, payment \in Payments :
           Refused(post_job(St, None, payment, deadline, ms, overflow_checks))
    /\ \A j \in AnyJobId :
         /\ Refused(cancel_job(St, None, j))
         /\ Refused(withdraw_bid(St, None, j))
         /\ Refused(complete_job(St, now, None, j))
         /\ Refused(open_dispute(St, None, j))
         /\ \A amount \in AnyAmount :
              /\ Refused(place_bid(St, now, None, j, amount))
              /\ \A agent \in Users :
                     Refused(accept_bid(St, now, None, j, agent, amount))
         /\ \A m \in MilestoneIds :
              /\ Refused(submit_milestone(St, None, j, m))
              /\ Refused(approve_milestone(St, None, j, m))
              /\ Refused(request_revision(St, None, j, m))
         /\ \A recipient \in Users :
                Refused(send_message(St, None, j, recipient))
         /\ \A rating \in RatingInputs :
                Refused(rate_agent(St, None, j, rating))
    /\ \A d \in AnyDisputeId :
         /\ Refused(respond_to_dispute(St, None, d))
         /\ \A resolution \in Resolutions, refund \in RefundInputs,
               notes \in NoteInputs :
                Refused(resolve_dispute(St, now, None, d, resolution, refund,
                                        notes))

(* What complete_job is to return for an existing job. *)
CompleteOutcome(job, signer) ==
    IF signer /= Some(job.client) THEN "NotAuthorized"
    ELSE IF job.status \notin {"InProgress", "PendingApproval"}
    THEN "InvalidStatus"
    ELSE "Ok"

(* What a successful complete_job is to leave behind. *)
CompleteEffect(r, j) ==
    LET before == jobs[j]
        after == r.st.jobs[j] IN
    /\ after.status = "Completed"
    /\ Len(after.milestones) = Len(before.milestones)
    /\ \A i \in 1..Len(after.milestones) :
           after.milestones[i] =
               [before.milestones[i] EXCEPT !.status = "Approved"]
    /\ j \in DOMAIN escrow
    /\ r.st.escrow[j].status = "Released"
    /\ r.st.escrow[j].released_at = Some(now)
    /\ r.st.escrow[j].amount = escrow[j].amount
    /\ before.agent /= None
    /\ Unwrap(before.agent) \in DOMAIN agents
    /\ r.st.agents[Unwrap(before.agent)].jobs_completed =
           agents[Unwrap(before.agent)].jobs_completed + 1

(* C19: on an existing job, complete_job returns Ok exactly when the caller
   is the client and the job is InProgress or PendingApproval, NotAuthorized
   to any other caller, and InvalidStatus to the client of a job that is
   Posted, Disputed, Completed or Cancelled; on Ok every milestone is
   Approved, the job is Completed, the escrow record is Released with the
   time of the call as its release time, and the bound agent's
   jobs_completed is one higher. *)
C19_CompleteJob ==
    \A signer \in Signers, j \in DOMAIN jobs :
        LET r == complete_job(St, now, signer, j) IN
        /\ r.res = CompleteOutcome(jobs[j], signer)
        /\ r.res = "Ok" => CompleteEffect(r, j)

(* A job with two milestones was completed by its client after the clock
   moved on, the second milestone never having been submitted. *)
C19_Witness ==
    /\ last.op = "complete_job"
    /\ \E j \in DOMAIN jobs :
           /\ jobs[j].status = "Completed"
           /\ Len(jobs[j].milestones) = 2
           /\ AllApproved(jobs[j].milestones)
           /\ escrow[j].released_at = Some(MicrosPerSecond)
           /\ agents[Unwrap(jobs[j].agent)].jobs_completed = 1

(* The positions of the milestones of ms that carry the id m. *)
Named(ms, m) == {i \in 1..Len(ms) : ms[i].id = m}

(* What submit_milestone is to return for an existing job. *)
SubmitOutcome(job, signer, m) ==
    IF signer = None \/ signer /= job.agent THEN "NotAuthorized"
    ELSE IF job.status /= "InProgress" THEN "InvalidStatus"
    ELSE IF Named(job.milestones, m) = {} THEN "MilestoneNotFound"
    ELSE IF \E i \in Named(job.milestones, m) :
                job.milestones[i].status /= "InProgress"
    THEN "InvalidStatus"
    ELSE "Ok"

(* What approve_milestone is to return for an existing job. *)
ApproveOutcome(job, signer, m) ==
    IF signer /= Some(job.client) THEN "NotAuthorized"
    ELSE IF Named(job.milestones, m) = {} THEN "MilestoneNotFound"
    ELSE IF \E i \in Named(job.milestones, m) :
                job.milestones[i].status /= "Submitted"
    THEN "InvalidStatus"
    ELSE "Ok"

(* The milestone list with the status of the milestones in positions P set. *)
WithStatus(ms, P, status) ==
    [i \in 1..Len(ms) |->
        IF i \in P THEN [ms[i] EXCEPT !.status = status] ELSE ms[i]]

(* The positions of the milestones of ms that are not Approved, and the
   first position after i whose milestone is Pending. *)
Unapproved(ms) == {i \in 1..Len(ms) : ms[i].status /= "Approved"}
NextPending(ms, i) ==
    {n \in (i + 1)..Len(ms) :
        /\ ms[n].status = "Pending"
        /\ \A k \in 1..(n - 1) : ms[k].status /= "Pending"}

(* C20: on an existing job, submit_milestone returns Ok exactly when the
   caller is the bound agent, the job is InProgress and the named milestone
   exists and is InProgress, and then that milestone is Submitted, the other
   milestones are as before and the job is PendingApproval; to the bound
   agent of an InProgress job it returns MilestoneNotFound for an unknown
   id and InvalidStatus for a milestone in another status.  approve_milestone
   returns Ok to the client exactly when the named milestone exists and is
   Submitted, MilestoneNotFound for an unknown id and InvalidStatus for
   another status; when other milestones are still unapproved, the approved
   one is Approved, the next Pending milestone exists and is InProgress, the
   rest are as before and the job is InProgress. *)
C20_SubmitAndApprove ==
    \A signer \in Signers, j \in DOMAIN jobs, m \in MilestoneIds :
        LET job == jobs[j]
            P == Named(job.milestones, m)
            sub == submit_milestone(St, signer, j, m)
            app == approve_milestone(St, signer, j, m) IN
        /\ sub.res = SubmitOutcome(job, signer, m)
        /\ sub.res = "Ok" =>
               /\ sub.st.jobs[j].status = "PendingApproval"
               /\ sub.st.jobs[j].milestones =
                      WithStatus(job.milestones, P, "Submitted")
        /\ app.res = ApproveOutcome(job, signer, m)
        /\ (app.res = "Ok" /\ Unapproved(job.milestones) \ P /= {}) =>
               \E i \in P :
                   /\ NextPending(job.milestones, i) /= {}
                   /\ app.st.jobs[j].status = "InProgress"
                   /\ app.st.jobs[j].milestones =
                          WithStatus(WithStatus(job.milestones, P, "Approved"),
                                     NextPending(job.milestones, i),
                                     "InProgress")

(* The client has approved the first of two milestones: the second is now
   InProgress, the agent can submit it, and there is no third. *)
C20_Witness ==
    /\ last.op = "approve_milestone"
    /\ \E j \in DOMAIN jobs :
           /\ jobs[j].status = "InProgress"
           /\ Len(jobs[j].milestones) = 2
           /\ jobs[j].milestones[1].status = "Approved"
           /\ jobs[j].milestones[2].status = "InProgress"
           /\ submit_milestone(St, jobs[j].agent, j, 1).res = "Ok"
           /\ submit_milestone(St, jobs[j].agent, j, 2).res
                  = "MilestoneNotFound"

(* C21: in every reachable state, a milestone that is InProgress has only
   Approved milestones before it in its job's list, and no job has two
   milestones InProgress. *)
C21_OneMilestoneInProgress ==
    \A j \in DOMAIN jobs :
        LET ms == jobs[j].milestones IN
        /\ \A i \in 1..Len(ms) :
               ms[i].status = "InProgress" =>
                   \A k \in 1..(i - 1) : ms[k].status = "Approved"
        /\ Cardinality({i \in 1..Len(ms) : ms[i].status = "InProgress"}) <= 1

(* The first of three milestones has been approved: the second is the one
   in progress and the third still waits. *)
C21_Witness ==
    /\ last.op = "approve_milestone"
    /\ \E j \in DOMAIN jobs :
           /\ Len(jobs[j].milestones) = 3
           /\ jobs[j].milestones[1].status = "Approved"
           /\ jobs[j].milestones[2].status = "InProgress"
           /\ jobs[j].milestones[3].status = "Pending"

(* request_revision succeeds for the client on a Submitted milestone and for
   nobody else and nothing else, and leaves the milestone Rejected and the
   job InProgress. *)
RevisionRejects ==
    \A signer \in Signers, j \in DOMAIN jobs, m \in MilestoneIds :
        LET r == request_revision(St, signer, j, m)
            ms == jobs[j].milestones
            P == {i \in 1..Len(ms) : ms[i].id = m} IN
        /\ r.res = "Ok" <=>
               /\ signer = Some(jobs[j].client)
               /\ \E i \in P : ms[i].status = "Submitted"
        /\ r.res = "Ok" =>
               /\ r.st.jobs[j].status = "InProgress"
               /\ \A i \in P : r.st.jobs[j].milestones[i].status = "Rejected"

(* While a milestone is Rejected, no milestone of its job is InProgress and
   no submit_milestone, approve_milestone or request_revision naming it
   succeeds, whoever calls. *)
RejectedIsStuck ==
    \A j \in DOMAIN jobs :
        LET ms == jobs[j].milestones IN
        \A i \in 1..Len(ms) :
            ms[i].status = "Rejected" =>
                /\ \A k \in 1..Len(ms) : ms[k].status /= "InProgress"
                /\ \A signer \in Signers :
                       /\ submit_milestone(St, signer, j, ms[i].id).res /= "Ok"
                       /\ approve_milestone(St, signer, j, ms[i].id).res /= "Ok"
                       /\ request_revision(St, signer, j, ms[i].id).res /= "Ok"

(* C22: request_revision by the client on a Submitted milestone leaves it
   Rejected and the job InProgress; while the milestone is Rejected no
   milestone of the job is InProgress and every submit_milestone,
   approve_milestone and request_revision naming it fails; and a step
   changes a Rejected milestone only to Approved, and only in complete_job. *)
C22_RejectedStaysRejected ==
    /\ [](RevisionRejects /\ RejectedIsStuck)
    /\ [][\A j \in DOMAIN jobs :
              \A i \in 1..Len(jobs[j].milestones) :
                  jobs[j].milestones[i].status = "Rejected" =>
                      \/ jobs'[j].milestones[i].status = "Rejected"
                      \/ /\ jobs'[j].milestones[i].status = "Approved"
                         /\ last'.op = "complete_job"
         ]_vars

(* The client has asked for a revision of the second milestone; the job is
   back InProgress and the agent cannot submit the milestone again. *)
C22_Witness ==
    /\ last.op = "request_revision"
    /\ \E j \in DOMAIN jobs :
           /\ jobs[j].status = "InProgress"
           /\ Len(jobs[j].milestones) = 3
           /\ jobs[j].milestones[2].status = "Rejected"
           /\ submit_milestone(St, jobs[j].agent, j, 1).res = "InvalidStatus"

(* Whether the deadline of a job lies strictly before the current time. *)
Elapsed(job) == job.deadline /= None /\ now > Unwrap(job.deadline)

(* The bids of the list that the agent a placed. *)
BidsOf(bids, a) == {i \in 1..Len(bids) : bids[i].agent = a}

(* What place_bid is to return for an existing job: the first condition
   that fails names the error. *)
PlaceOutcome(job, signer, amount) ==
    IF signer = None THEN "NotAuthorized"
    ELSE IF Unwrap(signer) \notin DOMAIN agents THEN "AgentNotRegistered"
    ELSE IF signer = Some(job.client) THEN "CannotBidOwnJob"
    ELSE IF job.status /= "Posted" THEN "InvalidStatus"
    ELSE IF Elapsed(job) THEN "DeadlinePassed"
    ELSE IF BidsOf(job.bids, Unwrap(signer)) /= {} THEN "AlreadyBid"
    ELSE IF amount = 0 THEN "InvalidAmount"
    ELSE "Ok"

(* C23: on an existing job, place_bid returns Ok exactly when the caller is
   a registered agent and not the client, the job is Posted, its deadline
   (if any) has not elapsed, the caller has no bid on the list and the
   amount is not zero; otherwise it returns the error of the first of these
   conditions that fails; on a job that does not exist it does not succeed;
   on Ok the only change is one bid appended to the job's list, of the
   caller, at the amount given, with bid_id the length of the list before. *)
C23_PlaceBid ==
    \A signer \in Signers, j \in AnyJobId, amount \in AnyAmount :
        LET r == place_bid(St, now, signer, j, amount) IN
        IF j \notin DOMAIN jobs
        THEN r.res \in {"NotAuthorized", "AgentNotRegistered", "JobNotFound"}
        ELSE /\ r.res = PlaceOutcome(jobs[j], signer, amount)
             /\ r.res = "Ok" =>
                    r.st = [St EXCEPT !.jobs = [@ EXCEPT ![j].bids =
                               Append(@, [agent |-> Unwrap(signer),
                                          bid_id |-> Len(jobs[j].bids),
                                          amount |-> amount])]]

(* Two agents have bid on a job of alice, who is registered herself and is
   refused a bid on her own job. *)
C23_Witness ==
    /\ last.op = "place_bid"
    /\ \E j \in DOMAIN jobs :
           /\ Len(jobs[j].bids) = 2
           /\ jobs[j].bids[1].bid_id = 0
           /\ jobs[j].bids[2].bid_id = 1
           /\ place_bid(St, now, Some(jobs[j].client), j, 90).res
                  = "CannotBidOwnJob"

(* What withdraw_bid is to return for an existing job. *)
WithdrawOutcome(job, signer) ==
    IF signer = None THEN "NotAuthorized"
    ELSE IF job.status /= "Posted" THEN "InvalidStatus"
    ELSE IF BidsOf(job.bids, Unwrap(signer)) = {} THEN "BidNotFound"
    ELSE "Ok"

(* withdraw_bid returns what it is to return and, on Ok, leaves the bids of
   the other agents, in their order, and nothing of the caller. *)
WithdrawRemovesOwn(signer, j) ==
    LET w == withdraw_bid(St, signer, j) IN
    /\ w.res = WithdrawOutcome(jobs[j], signer)
    /\ w.res = "Ok" =>
           w.st = [St EXCEPT !.jobs = [@ EXCEPT ![j].bids =
                      SelectSeq(@, LAMBDA b : b.agent /= Unwrap(signer))]]

(* C24 as stated: withdraw_bid removes exactly the caller's bid, and a
   place_bid of a non-zero amount by the same agent right after a successful
   withdraw_bid succeeds and leaves exactly one bid of that agent. *)
C24_RebidAlwaysSucceeds ==
    \A signer \in Signers, j \in DOMAIN jobs :
        /\ WithdrawRemovesOwn(signer, j)
        /\ withdraw_bid(St, signer, j).res = "Ok" =>
               \A amount \in AnyAmount \ {0} :
                   LET p == place_bid(withdraw_bid(St, signer, j).st, now,
                                      signer, j, amount) IN
                   /\ p.res = "Ok"
                   /\ Cardinality(BidsOf(p.st.jobs[j].bids, Unwrap(signer))) = 1

(* C24 as amended: withdraw_bid on a Posted job removes exactly the caller's
   bid and no other agent's, returns BidNotFound when the caller has no bid
   and InvalidStatus when the job is not Posted; a place_bid of a non-zero
   amount by the same agent right after a successful withdraw_bid succeeds
   and leaves exactly one bid of that agent if the job's deadline has not
   elapsed, and returns DeadlinePassed and leaves none if it has. *)
C24_RebidUnlessDeadlinePassed ==
    \A signer \in Signers, j \in DOMAIN jobs :
        /\ WithdrawRemovesOwn(signer, j)
        /\ withdraw_bid(St, signer, j).res = "Ok" =>
               \A amount \in AnyAmount \ {0} :
                   LET p == place_bid(withdraw_bid(St, signer, j).st, now,
                                      signer, j, amount)
                       mine == BidsOf(p.st.jobs[j].bids, Unwrap(signer)) IN
                   IF Elapsed(jobs[j])
                   THEN p.res = "DeadlinePassed" /\ mine = {}
                   ELSE p.res = "Ok" /\ Cardinality(mine) = 1

(* An agent has withdrawn from a job on which another agent's bid stays,
   and the job's deadline has elapsed by now. *)
C24_Witness ==
    /\ last.op = "withdraw_bid"
    /\ \E j \in DOMAIN jobs :
           /\ Len(jobs[j].bids) = 1
           /\ jobs[j].bids[1].bid_id = 1
           /\ jobs[j].status = "Posted"
           /\ Elapsed(jobs[j])

(* What cancel_job is to return for an existing job. *)
CancelOutcome(job, signer) ==
    IF signer /= Some(job.client) THEN "NotAuthorized"
    ELSE IF job.status /= "Posted" THEN "InvalidStatus"
    ELSE "Ok"

(* C25: on an existing job, cancel_job returns Ok exactly when the caller is
   the client and the job is Posted, with or without bids; NotAuthorized to
   any other caller; InvalidStatus to the client once the job has left
   Posted; on Ok the only change in the whole state is that job's status,
   now Cancelled: no escrow record appears and no agent is bound. *)
C25_CancelJob ==
    \A signer \in Signers, j \in DOMAIN jobs :
        LET r == cancel_job(St, signer, j) IN
        /\ r.res = CancelOutcome(jobs[j], signer)
        /\ r.res = "Ok" =>
               r.st = [St EXCEPT !.jobs = [@ EXCEPT ![j].status = "Cancelled"]]

(* A job with two bids on it has been cancelled: the bids are still there,
   nobody is bound and there is no escrow record. *)
C25_Witness ==
    /\ last.op = "cancel_job"
    /\ escrow = EmptyMap
    /\ \E j \in DOMAIN jobs :
           /\ jobs[j].status = "Cancelled"
           /\ Len(jobs[j].bids) = 2
           /\ jobs[j].agent = None
           /\ cancel_job(St, Some(jobs[j].client), j).res = "InvalidStatus"

(* C26: on every reachable state, for every existing dispute and every
   resolution, notes and refund percentage, resolve_dispute succeeds for
   every authenticated caller, the client and the agent of the job or not,
   and leaves the very state it leaves when the job's client calls it; with
   one of the three resolved statuses the job and the escrow record end as
   that resolution says. *)
C26_AnyCallerResolves ==
    \A d \in DOMAIN disputes, resolution \in Resolutions,
       refund \in RefundInputs, notes \in NoteInputs :
        LET j == disputes[d].job_id
            by_client == resolve_dispute(St, now, Some(jobs[j].client), d,
                                         resolution, refund, notes) IN
        \A signer \in Signers \ {None} :
            LET r == resolve_dispute(St, now, signer, d, resolution, refund,
                                     notes) IN
            /\ r.res = "Ok"
            /\ r.st = by_client.st
            /\ resolution \in ResolvedStatuses =>
                   /\ r.st.jobs[j].status = JobOutcome[resolution]
                   /\ r.st.escrow[j].status = EscrowOutcome[resolution]

(* carol, who is neither the client nor the agent of the job and may not
   answer its dispute, has resolved it for the client. *)
C26_Witness ==
    /\ last.op = "resolve_dispute"
    /\ \E d \in DOMAIN disputes :
           LET j == disputes[d].job_id IN
           /\ disputes[d].status = "ResolvedForClient"
           /\ jobs[j].status = "Cancelled"
           /\ escrow[j].status = "Refunded"
           /\ jobs[j].client /= "carol"
           /\ jobs[j].agent /= Some("carol")
           /\ respond_to_dispute(St, Some("carol"), d).res = "NotAuthorized"

(* On a job without milestones no milestone operation succeeds, whoever
   calls and whatever id is named; the bound agent of such a job InProgress
   and its client get MilestoneNotFound; and the job is not PendingApproval. *)
NoMilestoneOps ==
    \A j \in DOMAIN jobs :
        jobs[j].milestones = <<>> =>
            /\ jobs[j].status /= "PendingApproval"
            /\ \A signer \in Signers, m \in MilestoneIds :
                   LET sub == submit_milestone(St, signer, j, m)
                       app == approve_milestone(St, signer, j, m)
                       rev == request_revision(St, signer, j, m) IN
                   /\ sub.res /= "Ok" /\ app.res /= "Ok" /\ rev.res /= "Ok"
                   /\ (signer /= None /\ signer = jobs[j].agent
                          /\ jobs[j].status = "InProgress") =>
                          sub.res = "MilestoneNotFound"
                   /\ signer = Some(jobs[j].client) =>
                          /\ app.res = "MilestoneNotFound"
                          /\ rev.res = "MilestoneNotFound"

(* C27: in every reachable state a job posted without milestones is not
   PendingApproval and submit_milestone, approve_milestone and
   request_revision fail on it (with MilestoneNotFound when the caller and
   the job status are acceptable); and a step that takes such a job from
   InProgress to Completed is a step of complete_job or of
   resolve_dispute. *)
C27_NoMilestonesNoSubMachine ==
    /\ []NoMilestoneOps
    /\ [][\A j \in DOMAIN jobs :
              (jobs[j].milestones = <<>> /\ jobs[j].status = "InProgress"
                  /\ jobs'[j].status = "Completed") =>
                  last'.op \in {"complete_job", "resolve_dispute"}
         ]_vars

(* A job without milestones has been completed by its client. *)
C27_Witness ==
    /\ last.op = "complete_job"
    /\ \E j \in DOMAIN jobs :
           /\ jobs[j].milestones = <<>>
           /\ jobs[j].status = "Completed"
           /\ escrow[j].status = "Released"
           /\ approve_milestone(St, Some(jobs[j].client), j, 0).res
                  = "MilestoneNotFound"

(* C28: a step that changes the bid list of a job is a step of place_bid or
   of withdraw_bid and finds the job Posted and leaves it Posted (so
   accept_bid, and every operation on a job that has left Posted, leaves
   the list as it is); a job that appears has no bid. *)
C28_BidsChangeOnlyWhilePosted ==
    [][/\ \A j \in DOMAIN jobs :
              jobs'[j].bids /= jobs[j].bids =>
                  /\ last'.op \in {"place_bid", "withdraw_bid"}
                  /\ jobs[j].status = "Posted"
                  /\ jobs'[j].status = "Posted"
       /\ \A j \in DOMAIN jobs' \ DOMAIN jobs : jobs'[j].bids = <<>>
      ]_vars

(* A job has gone from bidding to completion with both bids, the accepted
   one and the other, still on its list. *)
C28_Witness ==
    /\ last.op = "complete_job"
    /\ \E j \in DOMAIN jobs :
           /\ jobs[j].status = "Completed"
           /\ Len(jobs[j].bids) = 2
           /\ \E i \in 1..2 : Some(jobs[j].bids[i].agent) = jobs[j].agent

(* The state s with the deadline of every job taken away. *)
NoDeadline(s) ==
    [s EXCEPT !.jobs = [j \in DOMAIN @ |-> [@[j] EXCEPT !.deadline = None]]]

(* The call whose outcome on the state without deadlines is r0 and on the
   state as it is is r does the same in both. *)
SameWithout(r0, r) == r0.res = r.res /\ r0.st = NoDeadline(r.st)

(* place_bid returns DeadlinePassed exactly when its earlier checks pass
   and the current time is strictly after the job's deadline. *)
DeadlineIsStrict ==
    \A signer \in Signers \ {None}, j \in DOMAIN jobs, amount \in AnyAmount :
        place_bid(St, now, signer, j, amount).res = "DeadlinePassed" <=>
            /\ Unwrap(signer) \in DOMAIN agents
            /\ jobs[j].client /= Unwrap(signer)
            /\ jobs[j].status = "Posted"
            /\ jobs[j].deadline /= None
            /\ now > Unwrap(jobs[j].deadline)

(* Every operation but place_bid returns the same and writes the same
   whether the jobs have their deadlines or none. *)
DeadlineIsIgnored ==
    LET S0 == NoDeadline(St) IN
    \A signer \in Signers :
        /\ \A j \in AnyJobId :
             /\ SameWithout(cancel_job(S0, signer, j),
                            cancel_job(St, signer, j))
             /\ SameWithout(withdraw_bid(S0, signer, j),
                            withdraw_bid(St, signer, j))
             /\ SameWithout(complete_job(S0, now, signer, j),
                            complete_job(St, now, signer, j))
             /\ SameWithout(open_dispute(S0, signer, j),
                            open_dispute(St, signer, j))
             /\ \A agent \in Users, amount \in AnyAmount :
                    SameWithout(accept_bid(S0, now, signer, j, agent, amount),
                                accept_bid(St, now, signer, j, agent, amount))
             /\ \A m \in MilestoneIds :
                  /\ SameWithout(submit_milestone(S0, signer, j, m),
                                 submit_milestone(St, signer, j, m))
                  /\ SameWithout(approve_milestone(S0, signer, j, m),
                                 approve_milestone(St, signer, j, m))
                  /\ SameWithout(request_revision(S0, signer, j, m),
                                 request_revision(St, signer, j, m))
        /\ \A d \in AnyDisputeId :
             /\ SameWithout(respond_to_dispute(S0, signer, d),
                            respond_to_dispute(St, signer, d))
             /\ \A resolution \in Resolutions, refund \in RefundInputs,
                   notes \in NoteInputs :
                    SameWithout(
                        resolve_dispute(S0, now, signer, d, resolution,
                                        refund, notes),
                        resolve_dispute(St, now, signer, d, resolution,
                                        refund, notes))

(* C29: place_bid returns DeadlinePassed exactly when the time of the call
   is strictly later than the job's deadline (and its earlier checks pass);
   cancel_job, withdraw_bid, accept_bid, submit_milestone,
   approve_milestone, request_revision, complete_job, open_dispute,
   respond_to_dispute and resolve_dispute return and write the same with
   the deadline as without it; and a step in which time passes changes no
   job. *)
C29_DeadlineOnlyInPlaceBid ==
    /\ [](DeadlineIsStrict /\ DeadlineIsIgnored)
    /\ [][now' /= now => jobs' = jobs]_vars

(* A dispute on a job was resolved, and its escrow record stamped, after the
   job's deadline had elapsed. *)
C29_Witness ==
    \E d \in DOMAIN disputes :
        LET j == disputes[d].job_id IN
        /\ jobs[j].deadline = Some(0)
        /\ disputes[d].resolved_at = Some(MicrosPerSecond)
        /\ escrow[j].released_at = Some(MicrosPerSecond)
        /\ Len(jobs[j].bids) = 1

(* C30: in every reachable state, every milestone of a Completed job is
   Approved. *)
C30_CompletedMeansAllApproved ==
    \A j \in DOMAIN jobs :
        jobs[j].status = "Completed" => AllApproved(jobs[j].milestones)

(* ------------------------------------------------------------------------
   C31  complete_job recomputes the success rate of the job's agent as
   floor((old_rate * (n - 1) + 100) / n), where n is the agent's completion
   count after the increment; n is at least 1, and the quotient lies in
   0..100, so the cast to eight bits loses nothing.
   ------------------------------------------------------------------------ *)
AverageWithSuccess(old_rate, n) == (old_rate * (n - 1) + 100) \div n

RateOutcome(before, after) ==
    LET n == after.jobs_completed IN
    /\ n = before.jobs_completed + 1
    /\ n >= 1
    /\ AverageWithSuccess(before.success_rate, n) \in 0..100
    /\ after.success_rate = AverageWithSuccess(before.success_rate, n)

C31_SuccessRateAverage ==
    \A job_id \in AnyJobId, signer \in Signers :
        LET r == complete_job(St, now, signer, job_id) IN
        (r.res = "Ok" /\ jobs[job_id].agent /= None
                      /\ Has(agents, Unwrap(jobs[job_id].agent)))
            => RateOutcome(agents[Unwrap(jobs[job_id].agent)],
                           r.st.agents[Unwrap(jobs[job_id].agent)])

(* complete_job has just counted a second job for bob *)
C31_Witness ==
    /\ last.op = "complete_job"
    /\ Has(agents, "bob")
    /\ agents["bob"].jobs_completed = MaxCareerJobs

(* ------------------------------------------------------------------------
   C40  Every registered agent's success_rate is 100 in every reachable
   state: registration sets it to 100, complete_job averages it with 100,
   and nothing else writes it.
   ------------------------------------------------------------------------ *)
C40_SuccessRateAlways100 ==
    \A a \in DOMAIN agents : agents[a].success_rate = 100

(* bob has done a job and been rated twice for it, and a dispute about his
   other job has been settled *)
C40_Witness ==
    /\ Has(agents, "bob")
    /\ agents["bob"].jobs_completed >= 1
    /\ agents["bob"].total_ratings = MaxRatings
    /\ \E d \in DOMAIN disputes : disputes[d].resolved_at /= None

(* ------------------------------------------------------------------------
   C32  mark_messages_read is idempotent: a second call with the same list
   by the same caller returns the same and leaves the state of the first.
   It sets the read flag only on existing messages whose recipient is the
   caller, changes nothing else, and never clears a flag.
   ------------------------------------------------------------------------ *)
AnyMessageIds == MessageIdInputs \cup {<<1, 1>>, <<MaxMessages + 1, 1>>}

Listed(message_ids) == {message_ids[i] : i \in 1..Len(message_ids)}

MarkOutcome(r, signer, message_ids) ==
    /\ r.st = [St EXCEPT !.messages = r.st.messages]
    /\ DOMAIN r.st.messages = DOMAIN messages
    /\ \A m \in DOMAIN messages :
        /\ r.st.messages[m] = [messages[m] EXCEPT !.read = r.st.messages[m].read]
        /\ messages[m].read => r.st.messages[m].read
        /\ (r.st.messages[m].read /\ ~messages[m].read)
               => (m \in Listed(message_ids) /\ Some(messages[m].recipient) = signer)

C32_MarkReadIdempotent ==
    \A signer \in Signers, message_ids \in AnyMessageIds :
        LET r == mark_messages_read(St, signer, message_ids) IN
        /\ mark_messages_read(r.st, signer, message_ids) = r
        /\ MarkOutcome(r, signer, message_ids)

(* mark_messages_read has just set a flag while another message, sent to
   someone else, stays unread *)
C32_Witness ==
    /\ last.op = "mark_messages_read"
    /\ \E m1, m2 \in DOMAIN messages :
        /\ messages[m1].read
        /\ ~messages[m2].read
        /\ messages[m1].recipient /= messages[m2].recipient

(* ------------------------------------------------------------------------
   C33  A job has status Disputed exactly when at least one dispute that
   references it is unresolved (Open or UnderReview).
   ------------------------------------------------------------------------ *)
UnresolvedDisputesOf(j) ==
    {d \in DOMAIN disputes :
        /\ disputes[d].job_id = j
        /\ disputes[d].status \in {"Open", "UnderReview"}}

C33_DisputedIffUnresolved ==
    \A j \in DOMAIN jobs :
        jobs[j].status = "Disputed" <=> UnresolvedDisputesOf(j) /= {}

(* ------------------------------------------------------------------------
   C34  Every agent's jobs_completed equals the number of Completed jobs
   bound to that agent, whichever path completed them: complete_job, the
   approval of the last milestone, or the resolution of a dispute.
   ------------------------------------------------------------------------ *)
CompletedJobsOf(a) ==
    {j \in DOMAIN jobs : jobs[j].status = "Completed" /\ jobs[j].agent = Some(a)}

C34_CounterMatchesCompletedJobs ==
    \A a \in DOMAIN agents :
        agents[a].jobs_completed = Cardinality(CompletedJobsOf(a))

(* ------------------------------------------------------------------------
   C35  An escrow record's released_at is set exactly when its status is
   not Locked: every operation that takes a record out of Locked stamps it,
   and no operation stamps a record it leaves Locked.
   ------------------------------------------------------------------------ *)
C35_ReleasedAtIffNotLocked ==
    \A e \in DOMAIN escrow :
        escrow[e].released_at /= None <=> escrow[e].status /= "Locked"

(* ------------------------------------------------------------------------
   C38  Whenever a job has a bound agent, that agent is registered and is
   not the job's client, and the job's bid list holds a bid from that agent
   whose amount equals accepted_bid_amount, which is not zero.
   ------------------------------------------------------------------------ *)
C38_BoundAgentHasAcceptedBid ==
    \A j \in DOMAIN jobs :
        jobs[j].agent /= None =>
            LET a == Unwrap(jobs[j].agent) IN
            /\ Has(agents, a)
            /\ a /= jobs[j].client
            /\ jobs[j].accepted_bid_amount /= None
            /\ Unwrap(jobs[j].accepted_bid_amount) /= 0
            /\ \E i \in 1..Len(jobs[j].bids) :
                /\ jobs[j].bids[i].agent = a
                /\ jobs[j].bids[i].amount = Unwrap(jobs[j].accepted_bid_amount)

(* a job done by the agent whose bid was accepted, with the bid of a rival
   still in the list *)
C38_Witness ==
    \E j \in DOMAIN jobs :
        /\ jobs[j].status = "Completed"
        /\ jobs[j].agent /= None
        /\ \E i \in 1..Len(jobs[j].bids) : Some(jobs[j].bids[i].agent) /= jobs[j].agent

(* ------------------------------------------------------------------------
   C39  A job has status PendingApproval only if exactly one of its
   milestones is Submitted, and a job with status InProgress has no
   Submitted milestone.
   ------------------------------------------------------------------------ *)
SubmittedOf(job) ==
    {i \in 1..Len(job.milestones) : job.milestones[i].status = "Submitted"}

C39_PendingApprovalMeansOneSubmitted ==
    \A j \in DOMAIN jobs :
        /\ jobs[j].status = "PendingApproval"
               => Cardinality(SubmittedOf(jobs[j])) = 1
        /\ jobs[j].status = "InProgress" => SubmittedOf(jobs[j]) = {}

(* the agent has just submitted the second of three milestones *)
C39_Witness ==
    /\ last.op = "submit_milestone"
    /\ \E j \in DOMAIN jobs :
        /\ jobs[j].status = "PendingApproval"
        /\ Len(jobs[j].milestones) = 3
        /\ SubmittedOf(jobs[j]) = {2}

(* ------------------------------------------------------------------------
   C36  Once the client has rated a job, a second rate_agent by the client
   for that job fails with AlreadyRated and leaves the agent's
   total_ratings and total_rating_points and the rating id counter as they
   were.
   ------------------------------------------------------------------------ *)
RatedByClient(j) ==
    \E r \in DOMAIN ratings :
        ratings[r].job_id = j /\ ratings[r].rater = jobs[j].client

C36_SecondRatingRejected ==
    \A j \in DOMAIN jobs, rating \in 1..5 :
        RatedByClient(j) =>
            LET r == rate_agent(St, Some(jobs[j].client), j, rating) IN
            /\ r.res = "AlreadyRated"
            /\ r.st.agents = agents
            /\ r.st.next_rating_id = next_rating_id

(* ------------------------------------------------------------------------
   C37  As claimed: within one job, the bid_id values of the bids in the
   list are pairwise distinct, after any sequence of place_bid and
   withdraw_bid calls by several agents.
   ------------------------------------------------------------------------ *)
C37_BidIdsDistinct ==
    \A j \in DOMAIN jobs :
        \A i, k \in 1..Len(jobs[j].bids) :
            jobs[j].bids[i].bid_id = jobs[j].bids[k].bid_id => i = k

(* C37, amended: within one job, after any sequence of place_bid and
   withdraw_bid calls by several agents, the bids in the list are pairwise
   distinct by agent and each bid_id is at least the number of bids before it
   in the list; the bid_id values themselves can repeat. *)
C37_BidIdsAtLeastPosition ==
    \A j \in DOMAIN jobs :
        \A i, k \in 1..Len(jobs[j].bids) :
            /\ jobs[j].bids[i].bid_id >= i - 1
            /\ i /= k => jobs[j].bids[i].agent /= jobs[j].bids[k].agent

(* a bid placed after a withdrawal carries the bid_id of the bid before it *)
C37_Witness ==
    /\ last.op = "place_bid"
    /\ \E j \in DOMAIN jobs :
           /\ Len(jobs[j].bids) = 2
           /\ jobs[j].bids[1].bid_id = jobs[j].bids[2].bid_id

====
